---- MODULE Spec2Model ----
(***************************************************************************)
(* Blob chunk cache of rafs/src/storage/cache/blobcache.rs: the chunk     *)
(* state table (chunk_map, file_map), the per-entry lock, the read        *)
(* pipeline (fast path, cache recovery, backend miss, persist, copy-out), *)
(* evict and has.                                                          *)
(***************************************************************************)
EXTENDS Integers, Sequences, FiniteSets, TLC

\* ---------------------------------------------------------------- bounds
NumReaders == 2
MaxReads == 2
MaxEvicts == 1
MaxFaults == 1
MaxTampers == 1
NumWorkers == 1
MaxPrefetches == 1
MaxStops == 2
MaxCalls == 1
MaxPrefetchReads == 1
MaxEintr == 1

\* metadata::RAFS_DEFAULT_BLOCK_SIZE, in the model's unit (a chunk of the
\* model is 2 bytes and a compressed chunk 3)
RAFS_DEFAULT_BLOCK_SIZE == 4

\* ------------------------------------------------------------- utilities
None == "none"

Min(a, b) == IF a < b THEN a ELSE b
Max(a, b) == IF a > b THEN a ELSE b

RECURSIVE SumSeq(_)
SumSeq(s) == IF s = <<>> THEN 0 ELSE Head(s) + SumSeq(Tail(s))

Zeros(n) == [i \in 1..n |-> 0]

\* Option::None of a stream, a read result, a file_map row
NoStream == [some |-> FALSE, bytes |-> <<>>]
NoRet == [ok |-> FALSE, n |-> 0, data |-> <<>>, path |-> None]
NoFile == [open |-> FALSE, size |-> 0]

\* ------------------------------------------------- digest and compressor
\* RafsDigest::from_buf: a collision-free digest of a byte string.
Digest(bytes) == [alg |-> "blake3", of |-> bytes]

\* digest_check(chunk, block_id, digester)
digest_check(bytes, block_id) == Digest(bytes) = block_id

\* The stored (compressed) form of a chunk: a one-byte block token followed
\* by the literals.
Compress(bytes) == <<9>> \o bytes

\* compress::decompress of a buffer.
Decompress(raw) ==
    IF Len(raw) >= 1 /\ raw[1] = 9
    THEN [ok |-> TRUE, out |-> Tail(raw)]
    ELSE [ok |-> FALSE, out |-> <<>>]

\* compress::decompress of a stream (GZip): the decoder consumes one chunk
\* of n decoded bytes from the stream.
DecompressStream(stream, n) ==
    IF Len(stream) >= n + 1 /\ stream[1] = 9
    THEN [ok |-> TRUE, out |-> SubSeq(stream, 2, n + 1)]
    ELSE [ok |-> FALSE, out |-> <<>>]

\* ------------------------------------------------------ chunk descriptors
Blobs == {"b1", "b2"}
Chunks == {"c1", "c1dup", "c2"}

\* A chunk of blob b2 with the content (and so the digest) of c1.
OtherChunks == {"c1b2"}

\* The decompressed content the metadata declares for each chunk.
ChunkData(c) == IF c = "c2" THEN <<3, 4>> ELSE <<1, 2>>

\* RafsChunkInfo: c1 and c1dup are two descriptors of the same chunk
\* (same digest, same place in the blob, referenced from two file offsets).
ChunkInfo(c) ==
    [ block_id          |-> Digest(ChunkData(c)),
      blob_id           |-> IF c = "c1b2" THEN "b2" ELSE "b1",
      compress_offset   |-> IF c \in {"c2", "c1b2"} THEN 3 ELSE 0,
      compress_size     |-> 3,
      decompress_offset |-> IF c \in {"c2", "c1b2"} THEN 2 ELSE 0,
      decompress_size   |-> 2,
      file_offset       |-> IF c = "c1" THEN 0 ELSE IF c = "c1dup" THEN 4 ELSE 2 ]

Digests == {ChunkInfo(c).block_id : c \in Chunks}

\* What the backend stores for blob b1: the chunks in compressed form, one
\* after the other.  The backend may hold bytes that do not match the
\* metadata (BlobCorrupt).
BlobGood == Compress(ChunkData("c1")) \o Compress(ChunkData("c2"))
BlobCorrupt == <<9, 1, 7, 9, 3, 4>>

\* What the backend stores for blob b2: another chunk, then c1's content.
Blob2 == Compress(<<5, 6>>) \o Compress(ChunkData("c1b2"))

\* The chunk offsets in a blob or a blob cache file.
Offsets == {0, 2, 3}

\* MergedBackendRequest: the merged requests generate_merged_requests
\* sends for the prefetch hints of the model.
MergedReqs == {"m12", "m2"}

\* a merged request of no bytes
EmptyReqs == {"m0"}

MR(m) ==
    IF m = "m12"
    THEN [blob_id |-> "b1", blob_offset |-> 0, blob_size |-> 6,
          chunks |-> <<"c1", "c2">>]
    ELSE IF m = "m2"
    THEN [blob_id |-> "b1", blob_offset |-> 3, blob_size |-> 3,
          chunks |-> <<"c2">>]
    ELSE [blob_id |-> "b1", blob_offset |-> 0, blob_size |-> 0,
          chunks |-> <<>>]

\* config.prefetch_worker.bandwidth_rate
Rates == {0, 2, 5}

Workers == 1..NumWorkers

\* The read calls of the model: destination buffer lengths, in-chunk
\* offset and bio.size.
ReadArgs ==
    { [bufs |-> <<1>>,    offset |-> 1, size |-> 1],
      [bufs |-> <<2>>,    offset |-> 0, size |-> 2],
      [bufs |-> <<2>>,    offset |-> 0, size |-> 1] }

Readers == 1..NumReaders

\* ------------------------------------------------------------------ state
VARIABLES
    is_compressed,   \* BlobCache.is_compressed (config.cache_compressed)
    validate,        \* BlobCache.validate (config.cache_validate)
    compressor,      \* BlobCache.compressor
    blob_data,       \* the bytes the backend serves for each blob
    chunk_map,       \* BlobCacheState.chunk_map: digest -> entry (0: absent)
    file_map,        \* BlobCacheState.file_map: blob id -> (file, size)
    files,           \* content of the blob cache files in work_dir
    entries,         \* the BlobCacheEntry objects ever allocated
    entry_lock,      \* holder of each entry's Mutex (0: free)
    th,              \* the reader threads
    reads, evicts, faults, tampers,   \* counters bounding the run
    stats,           \* history: per entry, backend fetches, the fetches a
                     \* failure accounts for, transitions to Ready
    removed,         \* history: entries removed from chunk_map by evict
    altered,         \* history: Ready entries whose cached bytes were altered
    enabled,         \* config.prefetch_worker.enable
    mr_sender,       \* BlobCache.mr_sender: Mutex<Option<Sender>> (the cell
                     \* holds a sender; the mutex is poisoned)
    queue,           \* the merged requests in the spmc channel
    wk,              \* the prefetch worker threads
    api,             \* the last call of prefetch, stop_prefetch, has or
                     \* blob_size, and what it returned
    calls,           \* prefetch_seq and the counters bounding the calls
    lower,           \* nydus-image: the node tree Tree::apply works on
    applied,         \* the last Tree::apply: its target and what it returned
    upper_dir,       \* nydus-image: the source directory of an upper layer
    loaded,          \* what FilesystemTreeBuilder::load_children returned for it
    bandwidth_rate,  \* config.prefetch_worker.bandwidth_rate
    tokens,          \* BlobCache.limiter: the cells the bucket holds
    cache_lock,      \* BlobCache.cache (RwLock<BlobCacheState>): the worker
                     \* that holds the write guard over several steps (0:
                     \* nobody; the other guards are taken and dropped
                     \* within one step)
    hist             \* history: backend.blob_size queries per blob, whether
                     \* stop_prefetch has returned, the bytes of the last
                     \* successful entry.cache per file and offset

vars == << is_compressed, validate, compressor, blob_data, chunk_map, file_map,
           files, entries, entry_lock, th, reads, evicts, faults,
           tampers, stats, removed, altered, enabled, mr_sender, queue, wk,
           api, calls, cache_lock, hist, bandwidth_rate, tokens, lower, applied,
           upper_dir, loaded >>

\* The state of the image builder's node tree.
image == << lower, applied, upper_dir, loaded >>

\* The state of the prefetch side and of the facade's other calls.
pf == << enabled, mr_sender, queue, wk, api, calls, cache_lock >>

config == << is_compressed, validate, compressor, blob_data, bandwidth_rate >>

Idle ==
    [ pc |-> "idle", chunk |-> None, bufs |-> <<>>, offset |-> 0, size |-> 0,
      entry |-> 0, buf |-> <<>>, raw |-> <<>>, reuse |-> FALSE,
      ret |-> NoRet, cold |-> FALSE, fault |-> FALSE, after_evict |-> FALSE, tampered |-> FALSE,
      cache_err |-> FALSE, eintr |-> 0 ]

\* A worker that is not spawned, a worker waiting on the channel, no
\* finished request, no call yet.
NoLast == [mr |-> None, cold |-> FALSE, batches |-> 0]

WAbsent ==
    [ pc |-> "absent", mr |-> None, i |-> 0, e |-> 0, chunks |-> <<>>,
      late |-> FALSE, cold |-> FALSE, batches |-> 0, last |-> NoLast,
      errs |-> 0, limited |-> None ]

WIdle == [WAbsent EXCEPT !.pc = "recv"]

NoCall == [op |-> None, arg |-> None, ret |-> None, val |-> 0]

\* ------------------------------------------------- nydus-image: node tree
\* A Tree is modelled as a function from the paths of its nodes (path_vec:
\* "/" and then the component names) to the nodes; the children of a node
\* are the paths one longer that extend its path.  Sibling names are
\* unique, as they are in a directory.
Names == {"a", "b"}

RootPath == << "/" >>

TreePaths ==
    {RootPath} \cup {<< "/", x >> : x \in Names}
               \cup {<< "/", x, y >> : x \in Names, y \in Names}

\* Node::name(): the last component ("/" for the root)
name(path) == path[Len(path)]

is_prefix(p, q) == Len(p) <= Len(q) /\ SubSeq(q, 1, Len(p)) = p

restrict(T, paths) == [q \in paths |-> T[q]]

\* the Tree nodes of self.children
children(T, self) ==
    {q \in DOMAIN T : Len(q) = Len(self) + 1 /\ is_prefix(self, q)}

\* a Vec::remove that drops the child node and leaves its subtree
children_remove_shallow(T, child) == restrict(T, DOMAIN T \ {child})

\* self.children.remove(idx): the child and all below it are gone
children_remove(T, child) ==
    restrict(T, {q \in DOMAIN T : ~is_prefix(child, q)})

\* children.clear(): everything below the node is gone
children_clear(T, self) ==
    restrict(T, {q \in DOMAIN T : q = self \/ ~is_prefix(self, q)})

Lower == "Lower"

\* Tree::remove(target, children_only), called on the node at path self
RECURSIVE remove(_, _, _, _)
remove(T, self, target, children_only) ==
    LET target_paths == target.path
        target_paths_len == Len(target_paths)
        depth == Len(self)
    IN  IF /\ children_only /\ depth = target_paths_len
           /\ target_paths[depth] = name(self)
        THEN [tree |-> children_clear([T EXCEPT ![self].overlay = "UpperOpaque"], self),
              ret |-> "UpperOpaque"]
        ELSE IF depth < target_paths_len
                /\ \E child \in children(T, self) : name(child) = target_paths[depth + 1]
        THEN LET child == CHOOSE c \in children(T, self) :
                              name(c) = target_paths[depth + 1]
             IN  IF depth = target_paths_len - 1
                 THEN IF children_only
                      THEN [tree |-> children_clear(
                                        [T EXCEPT ![child].overlay = "UpperOpaque"], child),
                            ret |-> "UpperOpaque"]
                      ELSE [tree |-> children_remove(T, child), ret |-> "UpperRemoval"]
                 ELSE IF T[child].is_dir
                 THEN remove(T, child, target, children_only)
                 ELSE [tree |-> T, ret |-> Lower]
        ELSE [tree |-> T, ret |-> Lower]

\* target.clone() with the given overlay, as a node of the tree
clone(target, overlay) ==
    [is_dir |-> target.is_dir, overlay |-> overlay, layer |-> "upper"]

\* Tree::apply(target), called on the node at path self
RECURSIVE apply(_, _, _)
apply(T0, self, target) ==
    IF target.overlay = "UpperRemoval"
    THEN remove(T0, self, target, FALSE)
    ELSE
    LET T == IF target.overlay = "UpperOpaque"
             THEN remove(T0, self, target, TRUE).tree ELSE T0
        target_paths == target.path
        target_paths_len == Len(target_paths)
        depth == Len(self)
        found == /\ depth < target_paths_len
                 /\ \E child \in children(T, self) :
                        name(child) = target_paths[depth + 1]
        child == CHOOSE c \in children(T, self) : name(c) = target_paths[depth + 1]
        below == apply(T, child, target)
        addition ==
            IF depth = target_paths_len - 1 /\ target_paths[depth] = name(self)
            THEN [tree |-> [q \in DOMAIN T \cup {target_paths} |->
                              IF q = target_paths
                              THEN clone(target, "UpperAddition") ELSE T[q]],
                  ret |-> "UpperAddition"]
            ELSE [tree |-> T, ret |-> Lower]
    IN  IF target.fs_root
        THEN [tree |-> [T EXCEPT ![self] = clone(target, "UpperModification")],
              ret |-> "UpperModification"]
        ELSE IF found /\ depth = target_paths_len - 1
        THEN [tree |-> [T EXCEPT ![child] = clone(target, "UpperModification")],
              ret |-> "UpperModification"]
        ELSE IF found /\ T[child].is_dir /\ below.ret # Lower
        THEN below
        ELSE IF found /\ T[child].is_dir
        THEN [addition EXCEPT !.tree =
                 IF addition.ret = Lower THEN below.tree ELSE addition.tree]
        ELSE addition

\* The node trees a bootstrap or a directory gives: the root is a
\* directory, every node has its parent, and only directories have
\* children.
LowerNode(d) == [is_dir |-> d, overlay |-> Lower, layer |-> "lower"]

LowerTrees ==
    {T \in UNION {[paths -> {LowerNode(TRUE), LowerNode(FALSE)}] :
                    paths \in {P \in SUBSET TreePaths : RootPath \in P}} :
        /\ T[RootPath].is_dir
        /\ \A q \in DOMAIN T :
            q # RootPath => /\ SubSeq(q, 1, Len(q) - 1) \in DOMAIN T
                            /\ T[SubSeq(q, 1, Len(q) - 1)].is_dir}

\* The nodes of an upper layer that are applied: a whiteout (UpperRemoval),
\* a directory with the opaque marker (UpperOpaque), any other file or
\* directory; fs_root is target.path == "/", the root of a layer built
\* from "/".
Targets ==
    {t \in [path : TreePaths, is_dir : BOOLEAN, fs_root : BOOLEAN,
            overlay : {"UpperAddition", "UpperRemoval", "UpperOpaque"}] :
        /\ t.overlay = "UpperOpaque" => t.is_dir
        /\ t.overlay = "UpperRemoval" => t.path # RootPath /\ ~t.is_dir
        /\ t.path = RootPath => t.is_dir
        /\ t.fs_root => t.path = RootPath}

NoTree == [q \in {RootPath} |-> LowerNode(TRUE)]

NoApply == [done |-> FALSE,
            target |-> [path |-> RootPath, is_dir |-> TRUE, fs_root |-> FALSE,
                        overlay |-> "UpperAddition"],
            ret |-> Lower,
            before |-> NoTree]

\* ---- nydus-image: the tree of an upper layer's source directory ----

\* The most entries of one directory, and of one directory below the root.
MaxEntries == 3
MaxSubEntries == 2

\* A file name is a sequence of pieces, so that a prefix can be tested
\* and cut off: ".wh.a" is << ".wh.", "a" >>.
OCISPEC_WHITEOUT_PREFIX == ".wh."
OCISPEC_WHITEOUT_OPAQUE == << ".wh.", ".wh.", ".opq" >>

\* n.starts_with(prefix)
starts_with(n, prefix) == Len(n) >= 1 /\ n[1] = prefix

\* &n[OCISPEC_WHITEOUT_PREFIX.len()..]
strip_prefix(n) == Tail(n)

\* path.join(n)
join(path, n) == Append(path, n)

\* Node::new(root_path, path, Overlay::UpperAddition, ..): the path is kept
\* as the components below root_path; file_type is "" for a special file.
Node_new(path, file_type) ==
    [path |-> path, overlay |-> "UpperAddition", file_type |-> file_type]

\* node.is_dir()
is_dir(node) == node.file_type = "dir"

\* parent.path.join(n).exists(), entries being the entries of parent.path
exists(dir_entries, n) == \E i \in 1..Len(dir_entries) : dir_entries[i].name = n

\* result.insert(0, child_tree) and result.push(child_tree)
insert_0_push(result, child_tree) == Append(result, child_tree)
insert_0(result, child_tree) == << child_tree >> \o result
push(result, child_tree) == Append(result, child_tree)

\* FilesystemTreeBuilder::load_children(parent, overlay), with the entries
\* read_dir gives for parent.path in the order it gives them; the result is
\* the child list and the parent, whose overlay the call may have set.
RECURSIVE load_children(_, _, _)
RECURSIVE for_children(_, _, _, _, _)
load_children(parent, dir_entries, overlay) ==
    IF ~is_dir(parent)
    THEN [parent |-> parent, result |-> << >>]
    ELSE LET marked == IF overlay /\ exists(dir_entries, OCISPEC_WHITEOUT_OPAQUE)
                       THEN [parent EXCEPT !.overlay = "UpperOpaque"]
                       ELSE parent
         IN  [parent |-> marked,
              result |-> for_children(marked, dir_entries, 1, << >>, overlay)]

\* the loop over the entries, from entry i on
for_children(parent, dir_entries, i, result, overlay) ==
    IF i > Len(dir_entries)
    THEN result
    ELSE LET e == dir_entries[i]
             child == Node_new(join(parent.path, e.name), e.file_type)
             n == name(child.path)
             continue(r) == for_children(parent, dir_entries, i + 1, r, overlay)
         IN  IF child.file_type = ""
             THEN continue(result)
             ELSE IF overlay /\ n = OCISPEC_WHITEOUT_OPAQUE
             THEN continue(result)
             ELSE IF overlay /\ starts_with(n, OCISPEC_WHITEOUT_PREFIX)
             THEN continue(insert_0(result,
                      [node |-> [child EXCEPT
                                   !.path = join(parent.path, strip_prefix(n)),
                                   !.overlay = "UpperRemoval"],
                       children |-> << >>]))
             ELSE LET sub == load_children(child, e.entries, overlay)
                      child_tree == [node |-> sub.parent, children |-> sub.result]
                  IN  IF overlay /\ sub.parent.overlay \in {"UpperRemoval", "UpperOpaque"}
                      THEN continue(insert_0(result, child_tree))
                      ELSE continue(push(result, child_tree))

\* Tree::iterate: the node, then the children in list order, each with
\* its own children.
RECURSIVE iterate(_)
RECURSIVE iterate_children(_, _)
iterate(tree) == << tree.node >> \o iterate_children(tree.children, 1)

iterate_children(list, i) ==
    IF i > Len(list) THEN << >>
    ELSE iterate(list[i]) \o iterate_children(list, i + 1)

\* The entries of directories: a name, a type ("" for a special file) and,
\* for a directory, its own entries; no name twice in one directory.
NoDup(S, n) ==
    {l \in UNION {[1..k -> S] : k \in 0..n} :
        \A i \in 1..Len(l) : \A j \in 1..Len(l) : i # j => l[i].name # l[j].name}

DirNames == {<< "a" >>, << "d" >>, << OCISPEC_WHITEOUT_PREFIX, "a" >>,
             OCISPEC_WHITEOUT_OPAQUE}

DirEntries ==
    [name : DirNames, file_type : {"file", ""}, entries : {<< >>}]
    \cup [name : DirNames, file_type : {"dir"},
          entries : NoDup([name : DirNames \ {<< "d" >>}, file_type : {"file"},
                           entries : {<< >>}], MaxSubEntries)]

UpperDirs == [entries : NoDup(DirEntries, MaxEntries), overlay : BOOLEAN]

NoDir == [entries |-> << >>, overlay |-> FALSE]
NoLoad == [done |-> FALSE,
           tree |-> [node |-> Node_new(<< >>, "dir"), children |-> << >>]]

\* new(): empty maps; backend_size_valid is compressor = GZip.
InitCache ==
    /\ is_compressed \in BOOLEAN
    /\ validate \in BOOLEAN
    /\ compressor \in {"LZ4Block", "GZip"}
    /\ blob_data \in {f \in [Blobs -> {BlobGood, BlobCorrupt, Blob2}] :
                        f["b1"] # Blob2 /\ f["b2"] = Blob2}
    /\ chunk_map = [d \in Digests |-> 0]
    /\ file_map = [b \in Blobs |-> NoFile]
    /\ files = [b \in Blobs |-> <<>>]
    /\ entries = <<>>
    /\ entry_lock = <<>>
    /\ th = [t \in Readers |-> Idle]
    /\ reads = 0 /\ evicts = 0 /\ faults = 0 /\ tampers = 0
    /\ stats = <<>>
    /\ removed = {}
    /\ altered = {}
    /\ queue = <<>>
    /\ api = NoCall
    /\ calls = [prefetch_seq |-> 0, stop |-> 0, other |-> 0]
    /\ cache_lock = 0
    /\ hist = [size_queries |-> [b \in Blobs |-> 0],
               stopped |-> FALSE,
               persisted |-> [b \in Blobs |-> [o \in Offsets |-> <<>>]]]

\* new() with prefetch_worker.enable = false (PrefetchWorker::default()):
\* no channel, no workers.
Init ==
    /\ InitCache
    /\ enabled = FALSE
    /\ mr_sender = [some |-> FALSE, poisoned |-> FALSE]
    /\ wk = [w \in Workers |-> WAbsent]
    /\ bandwidth_rate = 0
    /\ tokens = 0
    /\ lower = NoTree
    /\ applied = NoApply
    /\ upper_dir = NoDir
    /\ loaded = NoLoad

\* new() with either setting of prefetch_worker.enable: when enabled the
\* channel is created and threads_count workers are spawned.
InitPrefetch ==
    /\ InitCache
    /\ enabled \in BOOLEAN
    /\ mr_sender = [some |-> enabled, poisoned |-> FALSE]
    /\ wk = [w \in Workers |-> IF enabled THEN WIdle ELSE WAbsent]
    /\ bandwidth_rate = 0
    /\ tokens = 0
    /\ lower = NoTree
    /\ applied = NoApply
    /\ upper_dir = NoDir
    /\ loaded = NoLoad

\* new(): the limit the limiter is built with, 0 for no limiter; the
\* quota per_second(v) has a burst of v cells
tweaked_bw_limit ==
    IF bandwidth_rate # 0 THEN Max(RAFS_DEFAULT_BLOCK_SIZE, bandwidth_rate) ELSE 0

limiter_some == tweaked_bw_limit # 0

\* new() with prefetching enabled and any bandwidth_rate; the bucket holds
\* what earlier requests have left in it
InitLimiter ==
    /\ InitCache
    /\ enabled = TRUE
    /\ mr_sender = [some |-> TRUE, poisoned |-> FALSE]
    /\ wk = [w \in Workers |-> WIdle]
    /\ bandwidth_rate \in Rates
    /\ tokens \in 0..tweaked_bw_limit
    /\ lower = NoTree
    /\ applied = NoApply
    /\ upper_dir = NoDir
    /\ loaded = NoLoad

\* The cache left as it is built, with one configuration, next to the
\* image builder.
InitIdleCache ==
    /\ InitCache
    /\ is_compressed = FALSE /\ validate = FALSE /\ compressor = "LZ4Block"
    /\ blob_data = [b \in Blobs |-> IF b = "b1" THEN BlobGood ELSE Blob2]
    /\ enabled = FALSE
    /\ mr_sender = [some |-> FALSE, poisoned |-> FALSE]
    /\ wk = [w \in Workers |-> WAbsent]
    /\ bandwidth_rate = 0
    /\ tokens = 0

\* A lower tree, before an upper-layer node is applied to it.
InitApply ==
    /\ InitIdleCache
    /\ lower \in LowerTrees
    /\ applied = NoApply
    /\ upper_dir = NoDir
    /\ loaded = NoLoad

\* The source directory of an upper layer, before the tree is built.
InitLoad ==
    /\ InitIdleCache
    /\ lower = NoTree
    /\ applied = NoApply
    /\ upper_dir \in UpperDirs
    /\ loaded = NoLoad

backend_size_valid == compressor = "GZip"

\* a get_blob_fd that registers the file before it asks for the size
get_blob_fd_err_keeps(b) == [file_map EXCEPT ![b] = [open |-> TRUE, size |-> 0]]

\* get_blob_fd(blob_id) that fails in open() or in backend.blob_size():
\* the `?` returns before file_map.insert, the opened file is dropped
get_blob_fd_err(b) == file_map

\* self.cache.read() / self.cache.write(): the guard can be taken
cache_free == cache_lock = 0

need_validate == validate

\* ---------------------------------------------------------------- file I/O
\* uio::pread(fd, buf, offset): the bytes read, short at end of file.
Pread(file, len, offset) == SubSeq(file, offset + 1, Min(offset + len, Len(file)))

\* uio::pwrite(fd, buf, offset) that wrote nr_write bytes; a write past
\* the end of the file leaves a hole of zeros.
Pwrite(file, buf, offset, nr_write) ==
    LET padded == IF Len(file) < offset
                  THEN file \o Zeros(offset - Len(file)) ELSE file
        newlen == IF Len(padded) > offset + nr_write
                  THEN Len(padded) ELSE offset + nr_write
    IN  [i \in 1..newlen |->
            IF i > offset /\ i <= offset + nr_write THEN buf[i - offset]
            ELSE padded[i]]

\* utils::readv(fd, bufs, offset, max_size): positional scatter read of at
\* most max_size bytes and at most the buffers' capacity.
readv(file, bufs, offset, max_size) ==
    LET data == Pread(file, Min(max_size, SumSeq(bufs)), offset)
    IN  [ok |-> TRUE, n |-> Len(data), data |-> data, path |-> None]

\* utils::copyv(src, dst, offset, max_size): gather copy from src[offset..].
copyv(src, bufs, offset, max_size) ==
    LET avail == IF offset >= Len(src) THEN 0 ELSE Len(src) - offset
        n == Min(Min(max_size, avail), SumSeq(bufs))
    IN  [ok |-> TRUE, n |-> n, data |-> SubSeq(src, offset + 1, offset + n),
         path |-> None]

\* What alloc_buf's memory, or the caller's destination buffer, may hold
\* before anything is stored into it.
UninitBufs(c) == {Zeros(ChunkInfo(c).decompress_size), ChunkData(c)}

\* --------------------------------------------------------- chunk decoding
\* RafsCache::process_raw_chunk(cki, raw_chunk, raw_stream, chunk,
\* need_decompress, need_validate).  raw_stream is NoStream or the bytes of
\* the stream; chunk is the destination's content before the call.
process_raw_chunk(c, raw_chunk, raw_stream, chunk, need_decompress, need_val) ==
    LET d_size == ChunkInfo(c).decompress_size
        dec == IF need_decompress
               THEN IF raw_stream.some
                    THEN DecompressStream(raw_stream.bytes, d_size)
                    ELSE Decompress(raw_chunk)
               ELSE [ok |-> TRUE, out |-> raw_chunk]
    IN  IF ~dec.ok THEN [ok |-> FALSE, out |-> chunk]
        ELSE IF Len(dec.out) # d_size THEN [ok |-> FALSE, out |-> dec.out]
        ELSE IF need_val /\ ~digest_check(dec.out, ChunkInfo(c).block_id)
             THEN [ok |-> FALSE, out |-> dec.out]
        ELSE [ok |-> TRUE, out |-> dec.out]

\* The offset of a chunk in the blob cache file.
cache_offset(c) ==
    IF is_compressed THEN ChunkInfo(c).compress_offset
    ELSE ChunkInfo(c).decompress_offset

\* read_blobcache_chunk that never validates
read_blobcache_chunk_novalidate(file, c, chunk, need_val) ==
    LET offset == cache_offset(c)
        raw_len == IF is_compressed /\ compressor # "GZip"
                   THEN ChunkInfo(c).compress_size ELSE Len(chunk)
    IN  IF compressor # "GZip"
        THEN LET raw == Pread(file, raw_len, offset)
             IN  IF Len(raw) = 0 \/ Len(raw) # raw_len
                 THEN [ok |-> FALSE, out |-> chunk]
                 ELSE process_raw_chunk(c, raw, NoStream, chunk, is_compressed, FALSE)
        ELSE process_raw_chunk(c, chunk,
                               [some |-> TRUE, bytes |-> SubSeq(file, offset + 1, Len(file))],
                               chunk, is_compressed, FALSE)

\* BlobCache::read_blobcache_chunk(fd, cki, chunk, need_validate); file is
\* the content behind fd, chunk the destination's content before the call.
read_blobcache_chunk(file, c, chunk, need_val) ==
    LET offset == cache_offset(c)
        raw_len == IF is_compressed /\ compressor # "GZip"
                   THEN ChunkInfo(c).compress_size ELSE Len(chunk)
    IN  IF compressor # "GZip"
        THEN LET raw == Pread(file, raw_len, offset)
             IN  IF Len(raw) = 0 \/ Len(raw) # raw_len
                 THEN [ok |-> FALSE, out |-> chunk]
                 ELSE process_raw_chunk(c, raw, NoStream, chunk, is_compressed, need_val)
        ELSE process_raw_chunk(c, chunk,
                               [some |-> TRUE, bytes |-> SubSeq(file, offset + 1, Len(file))],
                               chunk, is_compressed, need_val)

\* RafsCache::read_backend_chunk up to the cacher call: the raw bytes the
\* backend stores for the chunk, decoded and (if configured) validated.
read_backend_chunk(blob_id, c) ==
    LET raw == Pread(blob_data[blob_id], ChunkInfo(c).compress_size,
                     ChunkInfo(c).compress_offset)
        r == process_raw_chunk(c, raw, NoStream, <<>>, TRUE, need_validate)
    IN  [ok |-> r.ok /\ Len(raw) = ChunkInfo(c).compress_size,
         raw |-> raw, out |-> r.out]

\* ------------------------------------------------------------ state table
\* BlobCacheState::get
get(c) == chunk_map[ChunkInfo(c).block_id]

\* a has that reports only Ready entries
has_ready(c) ==
    /\ chunk_map[ChunkInfo(c).block_id] # 0
    /\ entries[chunk_map[ChunkInfo(c).block_id]].status = "Ready"

\* RafsCache::has
has(c) == chunk_map[ChunkInfo(c).block_id] # 0

\* set() without the double check
set_lookup_nocheck(c) == 0

\* set(): the double check under the exclusive lock
set_lookup(c) == chunk_map[ChunkInfo(c).block_id]

\* BlobCacheEntry::is_ready
is_ready(e) == entries[e].status = "Ready"

\* entry_read's fast-path condition
hit_cache(e) == ~is_compressed /\ ~need_validate /\ is_ready(e)

\* entry_read's choice of the caller's buffer as the one-chunk buffer
reuse_buf(c, bufs, offset) ==
    /\ ~is_compressed
    /\ Len(bufs) = 1
    /\ bufs[1] >= ChunkInfo(c).decompress_size
    /\ offset = 0

\* a recovery attempt that trusts a Ready entry's bytes
recover_validate_trusting(e) == ~is_ready(e)

\* entry_read's need_validate argument of the cache recovery attempt
recover_validate(e) == ~is_ready(e) \/ need_validate

\* a fast path that reads at the compressed offset
fast_offset_compressed(c, offset) == offset + ChunkInfo(c).compress_offset

\* entry_read's file offset of the fast path
fast_offset(c, offset) == offset + ChunkInfo(c).decompress_offset

\* entry_read's gate of the cache recovery attempt
try_recover(e) == compressor # "GZip" \/ is_ready(e)

\* an entry_read that ignores the error of the recovery attempt
after_recover_trusting(rec) == "copyout"

\* entry_read: where the read goes after the cache recovery attempt
after_recover(rec) == IF rec THEN "copyout" ELSE "backend"

\* an evict that removes nothing
evict_map_keep(c) == chunk_map

\* an evict that clears the whole map
evict_map_clear(c) == [d \in Digests |-> 0]

\* the chunk_map row that evict removes
evict_map(c) == [chunk_map EXCEPT ![ChunkInfo(c).block_id] = 0]

\* a cache() that resets the status when the write fails
cache_status_reset(e, written) == IF written THEN "Ready" ELSE "NotReady"

\* a cache() that sets the entry Ready whatever pwrite returned
cache_status_set(e, written) == "Ready"

\* the entry's status after BlobCacheEntry::cache returned ok / an error
cache_status(e, written) == IF written THEN "Ready" ELSE entries[e].status

\* the byte counts a pwrite of buf that does not fail may report
write_counts(buf) == 1..Len(buf)

\* a lock that excludes nobody
lock_free_always(e) == TRUE

\* an entry_read that returns with the entry's guard leaked
Unlock_leak(t) == UNCHANGED entry_lock

\* Mutex<BlobCacheEntry>: the lock can be taken
lock_free(e) == entry_lock[e] = 0

\* entry_read(): what the caller gets from the one-chunk buffer
copy_out(reuse, one_chunk_buf, bufs, offset, size) ==
    IF reuse
    THEN [ok |-> TRUE, n |-> Len(one_chunk_buf), data |-> one_chunk_buf, path |-> None]
    ELSE [copyv(one_chunk_buf, bufs, offset, size) EXCEPT !.path = None]

\* ------------------------------------------------------------------ read
Err(path) == [ok |-> FALSE, n |-> 0, data |-> <<>>, path |-> path]

Unlock(t) == entry_lock' = [entry_lock EXCEPT ![th[t].entry] = 0]

Excuse(e, yes) ==
    stats' = [stats EXCEPT ![e].excused = @ + (IF yes THEN 1 ELSE 0)]

\* read(): self.cache.read().unwrap().get(bio.chunkinfo)
ReadStart(t, c, a) ==
    /\ th[t].pc \in {"idle", "done"}
    /\ cache_free
    /\ \A u \in Readers : u < t => th[u].pc \notin {"idle", "done"}
    /\ reads < MaxReads
    /\ reads' = reads + 1
    /\ th' = [th EXCEPT ![t] =
                [Idle EXCEPT !.pc = IF get(c) = 0 THEN "set" ELSE "lock",
                             !.chunk = c, !.bufs = a.bufs, !.offset = a.offset,
                             !.size = a.size, !.entry = get(c),
                             !.cold = get(c) # 0 /\ ~is_ready(get(c)),
                             !.after_evict =
                                /\ get(c) = 0
                                /\ \E e \in removed :
                                      ChunkInfo(entries[e].chunk).block_id
                                        = ChunkInfo(c).block_id,
                             !.tampered = get(c) # 0 /\ get(c) \in altered]]
    /\ UNCHANGED << config, tokens, image, pf, hist, chunk_map, file_map, files, entries, entry_lock,
                    evicts, faults, tampers, stats, removed, altered >>

\* set(): the double check finds the entry someone else inserted
SetFound(t) ==
    /\ th[t].pc = "set"
    /\ cache_free
    /\ set_lookup(th[t].chunk) # 0
    /\ th' = [th EXCEPT ![t].pc = "lock", ![t].entry = set_lookup(th[t].chunk),
                        ![t].cold = ~is_ready(set_lookup(th[t].chunk))]
    /\ UNCHANGED << config, tokens, image, pf, hist, chunk_map, file_map, files, entries, entry_lock,
                    reads, evicts, faults, tampers, stats, removed, altered >>

\* set(): get_blob_fd succeeds (memoized, or opens the file and records
\* it with its size); a NotReady entry is allocated and inserted
SetInsert(t) ==
    LET c == th[t].chunk
        b == ChunkInfo(c).blob_id
        e == Len(entries) + 1
    IN  /\ th[t].pc = "set"
        /\ cache_free
        /\ set_lookup(c) = 0
        /\ file_map' =
              IF file_map[b].open THEN file_map
              ELSE [file_map EXCEPT ![b] =
                      [open |-> TRUE,
                       size |-> IF backend_size_valid THEN Len(blob_data[b]) ELSE 0]]
        /\ entries' = Append(entries, [status |-> "NotReady", chunk |-> c, fd |-> b])
        /\ entry_lock' = Append(entry_lock, 0)
        /\ stats' = Append(stats, [fetch |-> 0, excused |-> 0, ready |-> 0, persist |-> 0])
        /\ chunk_map' = [chunk_map EXCEPT ![ChunkInfo(c).block_id] = e]
        /\ th' = [th EXCEPT ![t].pc = "lock", ![t].entry = e, ![t].cold = TRUE]
        /\ hist' = [hist EXCEPT !.size_queries[b] =
                       @ + (IF ~file_map[b].open /\ backend_size_valid THEN 1 ELSE 0)]
        /\ UNCHANGED << config, tokens, image, pf, files, reads, evicts, faults, tampers,
                        removed, altered >>

\* set(): get_blob_fd fails (the open, or backend.blob_size when the
\* backend's size is authoritative); read returns the error
SetFail(t) ==
    /\ th[t].pc = "set"
    /\ cache_free
    /\ set_lookup(th[t].chunk) = 0
    /\ ~file_map[ChunkInfo(th[t].chunk).blob_id].open
    /\ faults < MaxFaults
    /\ faults' = faults + 1
    /\ th' = [th EXCEPT ![t].pc = "done", ![t].ret = Err("set"), ![t].fault = TRUE]
    /\ \E queried \in {FALSE, backend_size_valid} :
          hist' = [hist EXCEPT !.size_queries[ChunkInfo(th[t].chunk).blob_id] =
                     @ + (IF queried THEN 1 ELSE 0)]
    /\ file_map' = get_blob_fd_err(ChunkInfo(th[t].chunk).blob_id)
    /\ UNCHANGED << config, tokens, image, pf, chunk_map, files, entries, entry_lock,
                    reads, evicts, tampers, stats, removed, altered >>

\* entry_read(): entry.lock()
EntryLock(t) ==
    /\ th[t].pc = "lock"
    /\ lock_free(th[t].entry)
    /\ entry_lock' = [entry_lock EXCEPT ![th[t].entry] = t]
    /\ th' = [th EXCEPT ![t].pc = "locked"]
    /\ UNCHANGED << config, tokens, image, pf, hist, chunk_map, file_map, files, entries, reads,
                    evicts, faults, tampers, stats, removed, altered >>

\* entry_read(): hit cache if cache ready
FastPath(t) ==
    LET e == th[t].entry
        c == entries[e].chunk
    IN  /\ th[t].pc = "locked"
        /\ hit_cache(e)
        /\ th' = [th EXCEPT ![t].pc = "done",
                            ![t].ret =
                               [readv(files[entries[e].fd], th[t].bufs,
                                      fast_offset(c, th[t].offset),
                                      th[t].size) EXCEPT !.path = "fast"]]
        /\ Unlock(t)
        /\ UNCHANGED << config, tokens, image, pf, hist, chunk_map, file_map, files, entries, reads,
                        evicts, faults, tampers, stats, removed, altered >>

\* entry_read(): pick the one-chunk buffer, then try to recover the chunk
\* from the blob cache file
Recover(t) ==
    LET e == th[t].entry
        c == entries[e].chunk
    IN  /\ th[t].pc = "locked"
        /\ ~hit_cache(e)
        /\ \E b0 \in UninitBufs(c) :
             LET r == read_blobcache_chunk(files[entries[e].fd], c, b0,
                                           recover_validate(e))
                 rec == try_recover(e) /\ r.ok
             IN  th' = [th EXCEPT ![t].pc = after_recover(rec),
                                  ![t].reuse = reuse_buf(c, th[t].bufs, th[t].offset),
                                  ![t].buf = IF rec THEN r.out ELSE <<>>,
                                  ![t].ret = [NoRet EXCEPT !.path =
                                                IF rec THEN "recover" ELSE "backend"]]
        /\ UNCHANGED << config, tokens, image, pf, hist, chunk_map, file_map, files, entries, entry_lock,
                        reads, evicts, faults, tampers, stats, removed, altered >>

\* read_backend_chunk(): the backend serves the chunk; it decodes and
\* validates, or it does not and read returns the error
BackendFetch(t) ==
    LET e == th[t].entry
        c == entries[e].chunk
        r == read_backend_chunk(ChunkInfo(th[t].chunk).blob_id, c)
    IN  /\ th[t].pc = "backend"
        /\ stats' = [stats EXCEPT ![e].fetch = @ + 1,
                                  ![e].excused = @ + (IF is_ready(e) \/ ~r.ok
                                                      THEN 1 ELSE 0)]
        /\ IF r.ok
           THEN /\ th' = [th EXCEPT ![t].pc = "persist", ![t].raw = r.raw,
                                    ![t].buf = r.out]
                /\ UNCHANGED entry_lock
           ELSE /\ th' = [th EXCEPT ![t].pc = "done", ![t].ret = Err("backend")]
                /\ Unlock(t)
        /\ UNCHANGED << config, tokens, image, pf, hist, chunk_map, file_map, files, entries, reads,
                        evicts, faults, tampers, removed, altered >>

\* read_backend_chunk(): the backend read fails
BackendFail(t) ==
    LET e == th[t].entry
    IN  /\ th[t].pc = "backend"
        /\ faults < MaxFaults
        /\ faults' = faults + 1
        /\ stats' = [stats EXCEPT ![e].fetch = @ + 1, ![e].excused = @ + 1]
        /\ th' = [th EXCEPT ![t].pc = "done", ![t].ret = Err("backend"),
                            ![t].fault = TRUE]
        /\ Unlock(t)
        /\ UNCHANGED << config, tokens, image, pf, hist, chunk_map, file_map, files, entries, reads,
                        evicts, tampers, removed, altered >>

\* the bytes and the offset the cacher closure hands to entry.cache()
cacher_buf(t) == IF is_compressed THEN th[t].raw ELSE th[t].buf

\* BlobCacheEntry::cache: pwrite wrote nr_write bytes; the entry is Ready
Persist(t, nr_write) ==
    LET e == th[t].entry
        c == entries[e].chunk
    IN  /\ th[t].pc = "persist"
        /\ nr_write \in write_counts(cacher_buf(t))
        /\ IF nr_write < Len(cacher_buf(t))
           THEN /\ faults < MaxFaults
                /\ faults' = faults + 1
           ELSE UNCHANGED faults
        /\ files' = [files EXCEPT ![entries[e].fd] =
                        Pwrite(@, cacher_buf(t), cache_offset(c), nr_write)]
        /\ entries' = [entries EXCEPT ![e].status = cache_status(e, TRUE)]
        /\ stats' = [stats EXCEPT
                       ![e].excused = @ + (IF nr_write < Len(cacher_buf(t)) /\ ~is_ready(e)
                                           THEN 1 ELSE 0),
                       ![e].ready = @ + (IF is_ready(e) THEN 0 ELSE 1),
                       ![e].persist = @ + 1]
        /\ altered' = altered \ {e}
        /\ hist' = [hist EXCEPT !.persisted[entries[e].fd][cache_offset(c)] =
                       cacher_buf(t)]
        /\ th' = [th EXCEPT ![t].pc = "copyout",
                            ![t].fault = @ \/ nr_write < Len(cacher_buf(t))]
        /\ UNCHANGED << config, tokens, image, pf, chunk_map, file_map, entry_lock, reads,
                        evicts, tampers, removed >>

\* BlobCacheEntry::cache: pwrite fails with an error other than EINTR
PersistFail(t) ==
    LET e == th[t].entry
    IN  /\ th[t].pc = "persist"
        /\ faults < MaxFaults
        /\ faults' = faults + 1
        /\ entries' = [entries EXCEPT ![e].status = cache_status(e, FALSE)]
        /\ Excuse(e, ~is_ready(e))
        /\ th' = [th EXCEPT ![t].pc = "copyout", ![t].fault = TRUE,
                            ![t].cache_err = TRUE]
        /\ UNCHANGED << config, tokens, image, pf, hist, chunk_map, file_map, files, entry_lock, reads, evicts, tampers, removed, altered >>

\* BlobCacheEntry::cache: pwrite was interrupted by a signal; the loop
\* calls it again
PersistEintr(t) ==
    /\ th[t].pc = "persist"
    /\ th[t].eintr < MaxEintr
    /\ th' = [th EXCEPT ![t].eintr = @ + 1]
    /\ UNCHANGED << config, tokens, image, pf, hist, chunk_map, file_map, files, entries, entry_lock,
                    reads, evicts, faults, tampers, stats, removed, altered >>

\* entry_read(): the result, and the entry lock is released
CopyOut(t) ==
    /\ th[t].pc = "copyout"
    /\ th' = [th EXCEPT ![t].pc = "done",
                        ![t].ret = [copy_out(th[t].reuse, th[t].buf, th[t].bufs,
                                             th[t].offset, th[t].size)
                                       EXCEPT !.path = th[t].ret.path]]
    /\ Unlock(t)
    /\ UNCHANGED << config, tokens, image, pf, hist, chunk_map, file_map, files, entries, reads,
                    evicts, faults, tampers, stats, removed, altered >>

\* ------------------------------------------------------------------ evict
Evict(c) ==
    /\ evicts < MaxEvicts
    /\ cache_free
    /\ evicts' = evicts + 1
    /\ chunk_map' = evict_map(c)
    /\ removed' = IF get(c) # 0 THEN removed \cup {get(c)} ELSE removed
    /\ UNCHANGED << config, tokens, image, pf, hist, file_map, files, entries, entry_lock, th, reads, faults, tampers, stats, altered >>

\* Someone other than the cache alters a byte of the cached copy of a
\* chunk whose entry is Ready.
Tamper(c, i) ==
    LET e == get(c)
    IN  /\ tampers < MaxTampers
        /\ e # 0
        /\ is_ready(e)
        /\ lock_free(e)
        /\ cache_offset(c) + i <= Len(files[entries[e].fd])
        /\ tampers' = tampers + 1
        /\ files' = [files EXCEPT ![entries[e].fd][cache_offset(c) + i] = 5]
        /\ altered' = altered \cup {e}
        /\ UNCHANGED << config, tokens, image, pf, hist, chunk_map, file_map, entries, entry_lock, th,
                        reads, evicts, faults, stats, removed >>

\* The steps of a read that has started.
ReaderSteps ==
    \/ \E t \in Readers : SetFound(t)
    \/ \E t \in Readers : SetInsert(t)
    \/ \E t \in Readers : SetFail(t)
    \/ \E t \in Readers : EntryLock(t)
    \/ \E t \in Readers : FastPath(t)
    \/ \E t \in Readers : Recover(t)
    \/ \E t \in Readers : BackendFetch(t)
    \/ \E t \in Readers : BackendFail(t)
    \/ \E t \in Readers, n \in 0..3 : Persist(t, n)
    \/ \E t \in Readers : PersistFail(t)
    \/ \E t \in Readers : CopyOut(t)

Next ==
    \/ \E t \in Readers, c \in Chunks, a \in ReadArgs : ReadStart(t, c, a)
    \/ ReaderSteps

Spec == Init /\ [][Next]_vars

\* The readers with callers of evict.
NextEvict ==
    \/ Next
    \/ \E c \in Chunks : Evict(c)

SpecEvict == Init /\ [][NextEvict]_vars

\* The cache with someone altering the cache file behind its back.
NextTamper ==
    \/ Next
    \/ \E c \in Chunks, i \in 1..3 : Tamper(c, i)
    \/ \E t \in Readers : PersistEintr(t)

SpecTamper == Init /\ [][NextTamper]_vars

\* The readers with reads of a second blob's chunk of the same digest.
NextBlobs ==
    \/ Next
    \/ \E t \in Readers, c \in OtherChunks, a \in ReadArgs : ReadStart(t, c, a)

SpecBlobs == Init /\ [][NextBlobs]_vars

\* ------------------------------------------------------- prefetch workers
\* RafsCache::read_chunks(blob_id, blob_offset, blob_size, cki_set): one
\* backend read of the merged span, then every chunk decoded (and validated
\* if configured) into a buffer of its own.
read_chunks(blob_id, blob_offset, blob_size, cki_set) ==
    LET raw == Pread(blob_data[blob_id], blob_size, blob_offset)
        dec(c) ==
            LET off == ChunkInfo(c).compress_offset - blob_offset
            IN  process_raw_chunk(c, SubSeq(raw, off + 1, off + ChunkInfo(c).compress_size),
                                  NoStream, <<>>, TRUE, need_validate)
    IN  [ok |-> /\ Len(raw) = blob_size
                /\ \A i \in 1..Len(cki_set) : dec(cki_set[i]).ok,
         chunks |-> [i \in 1..Len(cki_set) |-> dec(cki_set[i]).out]]

\* get_blob_fd(blob_id) that succeeds: file_map afterwards, and whether the
\* backend is asked for the blob's size.
get_blob_fd(b) ==
    IF file_map[b].open THEN file_map
    ELSE [file_map EXCEPT ![b] =
            [open |-> TRUE,
             size |-> IF backend_size_valid THEN Len(blob_data[b]) ELSE 0]]

\* a get_blob_fd that asks the backend on every call
asks_size_always(b) == backend_size_valid

asks_size(b) == ~file_map[b].open /\ backend_size_valid

\* a persist loop that writes every returned chunk
needs_cache_always(e) == TRUE

\* persist loop: the chunk is written only if the entry is not Ready
needs_cache(e) == ~is_ready(e)

\* The worker's record when it is done with its merged request, and when
\* it moves to the chunk after chunk i of the probe or of the persist loop.
WFinish(w) ==
    [WIdle EXCEPT !.last = [mr |-> wk[w].mr, cold |-> wk[w].cold,
                            batches |-> wk[w].batches],
                  !.errs = wk[w].errs]

WBatchOver(w) ==
    [WIdle EXCEPT !.last = [mr |-> wk[w].mr, cold |-> wk[w].cold,
                            batches |-> wk[w].batches + 1],
                  !.errs = wk[w].errs + 1]

WAdvance(w) ==
    IF wk[w].i < Len(MR(wk[w].mr).chunks)
    THEN [wk[w] EXCEPT !.i = @ + 1, !.pc = IF wk[w].pc \in {"probe", "proberead"}
                                           THEN "probe" ELSE "persist"]
    ELSE WFinish(w)

\* a persist loop that gives up the batch at the first error
after_persist_error_abort(w) == WFinish(w)

\* persist loop: after a set() or entry.cache error (logged) the loop goes
\* on with the next chunk
after_persist_error(w) == WAdvance(w)

\* rx.recv() returns a merged request (the channel hands out what is
\* queued whether or not the sender is dropped); a request of size 0 is
\* skipped
WorkerRecv(w) ==
    /\ wk[w].pc = "recv"
    /\ queue # <<>>
    /\ queue' = Tail(queue)
    /\ wk' = [wk EXCEPT ![w] =
                IF MR(Head(queue)).blob_size = 0 THEN wk[w]
                ELSE [wk[w] EXCEPT
                        !.pc = IF limiter_some THEN "throttle" ELSE "probe",
                        !.mr = Head(queue), !.i = 1, !.limited = None,
                        !.late = hist.stopped,
                        !.cold = \A i \in 1..Len(MR(Head(queue)).chunks) :
                                    ~has(MR(Head(queue)).chunks[i]),
                        !.batches = 0]]
    /\ UNCHANGED << config, tokens, image, chunk_map, file_map, files, entries, entry_lock, th,
                    reads, evicts, faults, tampers, stats, removed, altered,
                    cache_lock, enabled, mr_sender, api, calls, hist >>

\* a limiter that takes every request as within its capacity
over_capacity_never(n) == FALSE

\* governor: a request of n cells exceeds the burst (InsufficientCapacity)
over_capacity(n) == n > tweaked_bw_limit

\* limiter.check_n(cells): the cells are taken if the bucket holds them;
\* otherwise the worker goes on to until_n_ready
WorkerCheckN(w) ==
    LET n == MR(wk[w].mr).blob_size
        ok == ~over_capacity(n) /\ tokens >= n
    IN  /\ wk[w].pc = "throttle"
        /\ tokens' = IF ok THEN tokens - n ELSE tokens
        /\ wk' = [wk EXCEPT ![w].pc = IF ok THEN "probe" ELSE "until_ready",
                            ![w].limited = IF ok THEN "ok" ELSE None]
        /\ UNCHANGED << config, image, chunk_map, file_map, files, entries, entry_lock, th,
                        reads, evicts, faults, tampers, stats, removed, altered,
                        cache_lock, enabled, mr_sender, queue, api, calls, hist >>

\* block_on(limiter.until_n_ready(cells)): an error at once for a request
\* over the capacity (logged, the request goes on unthrottled); otherwise
\* the worker is parked until the bucket holds the cells and takes them
WorkerUntilReady(w) ==
    LET n == MR(wk[w].mr).blob_size
    IN  /\ wk[w].pc = "until_ready"
        /\ IF over_capacity(n)
           THEN /\ tokens' = tokens
                /\ wk' = [wk EXCEPT ![w].pc = "probe", ![w].limited = "gave_up"]
           ELSE /\ tokens >= n
                /\ tokens' = tokens - n
                /\ wk' = [wk EXCEPT ![w].pc = "probe", ![w].limited = "waited"]
        /\ UNCHANGED << config, image, chunk_map, file_map, files, entries, entry_lock, th,
                        reads, evicts, faults, tampers, stats, removed, altered,
                        cache_lock, enabled, mr_sender, queue, api, calls, hist >>

\* governor: time passes and the bucket gains a cell, up to the burst
Replenish ==
    /\ limiter_some
    /\ tokens < tweaked_bw_limit
    /\ tokens' = tokens + 1
    /\ UNCHANGED << config, image, chunk_map, file_map, files, entries, entry_lock, th,
                    reads, evicts, faults, tampers, stats, removed, altered,
                    cache_lock, enabled, mr_sender, queue, wk, api, calls, hist >>

\* rx.recv() returns Err: the channel is empty and the sender is dropped
WorkerExit(w) ==
    /\ wk[w].pc = "recv"
    /\ queue = <<>>
    /\ ~mr_sender.some
    /\ wk' = [wk EXCEPT ![w].pc = "exited"]
    /\ UNCHANGED << config, tokens, image, chunk_map, file_map, files, entries, entry_lock, th,
                    reads, evicts, faults, tampers, stats, removed, altered,
                    cache_lock, enabled, mr_sender, queue, api, calls, hist >>

\* probe loop: set() for chunk i (a failure skips the chunk), the entry
\* lock is taken, is_ready is looked at, the lock is dropped
WorkerProbe(w) ==
    LET c == MR(wk[w].mr).chunks[wk[w].i]
        b == MR(wk[w].mr).blob_id
        e == IF set_lookup(c) # 0 THEN set_lookup(c) ELSE Len(entries) + 1
    IN  /\ wk[w].pc = "probe"
        /\ cache_free
        /\ \E fail \in BOOLEAN :
             IF fail
             THEN /\ set_lookup(c) = 0
                  /\ ~file_map[b].open
                  /\ faults < MaxFaults
                  /\ faults' = faults + 1
                  /\ \E queried \in {FALSE, backend_size_valid} :
                        hist' = [hist EXCEPT !.size_queries[b] =
                                   @ + (IF queried THEN 1 ELSE 0)]
                  /\ wk' = [wk EXCEPT ![w] = [WAdvance(w) EXCEPT !.errs = @ + 1]]
                  /\ file_map' = get_blob_fd_err(b)
                  /\ UNCHANGED << chunk_map, entries, entry_lock, stats >>
             ELSE /\ set_lookup(c) # 0 => lock_free(e)
                  /\ IF set_lookup(c) # 0
                     THEN UNCHANGED << chunk_map, file_map, entries, entry_lock,
                                       stats, hist >>
                     ELSE /\ file_map' = get_blob_fd(b)
                          /\ hist' = [hist EXCEPT !.size_queries[b] =
                                        @ + (IF asks_size(b) THEN 1 ELSE 0)]
                          /\ entries' = Append(entries,
                                 [status |-> "NotReady", chunk |-> c, fd |-> b])
                          /\ entry_lock' = Append(entry_lock, 0)
                          /\ stats' = Append(stats,
                                 [fetch |-> 0, excused |-> 0, ready |-> 0, persist |-> 0])
                          /\ chunk_map' = [chunk_map EXCEPT
                                             ![ChunkInfo(c).block_id] = e]
                  /\ wk' = [wk EXCEPT ![w] =
                              IF set_lookup(c) # 0 /\ is_ready(e)
                              THEN WAdvance(w)
                              ELSE [wk[w] EXCEPT !.pc = "proberead", !.e = e]]
                  /\ UNCHANGED faults
        /\ UNCHANGED << config, tokens, image, files, th, reads, evicts, tampers, removed,
                        altered, cache_lock, enabled, mr_sender, queue, api, calls >>

\* probe loop: read_blobcache_chunk into a fresh buffer; an error makes
\* the worker issue the whole merged request
WorkerProbeRead(w) ==
    LET e == wk[w].e
        c == entries[e].chunk
    IN  /\ wk[w].pc = "proberead"
        /\ \E b0 \in UninitBufs(c) :
             wk' = [wk EXCEPT ![w] =
                      IF read_blobcache_chunk(files[entries[e].fd], c, b0,
                                              need_validate).ok
                      THEN WAdvance(w)
                      ELSE [wk[w] EXCEPT !.pc = "batch"]]
        /\ UNCHANGED << config, tokens, image, chunk_map, file_map, files, entries, entry_lock,
                        th, reads, evicts, faults, tampers, stats, removed,
                        altered, cache_lock, enabled, mr_sender, queue, api, calls, hist >>

\* read_chunks for the merged span: the chunks come back decoded, or the
\* call returns an error and the request is dropped
WorkerBatch(w) ==
    LET m == MR(wk[w].mr)
        r == read_chunks(m.blob_id, m.blob_offset, m.blob_size, m.chunks)
    IN  /\ wk[w].pc = "batch"
        /\ wk' = [wk EXCEPT ![w] =
                    IF r.ok
                    THEN [wk[w] EXCEPT !.pc = "persist", !.i = 1,
                                       !.chunks = r.chunks, !.batches = @ + 1]
                    ELSE WBatchOver(w)]
        /\ UNCHANGED << config, tokens, image, chunk_map, file_map, files, entries, entry_lock,
                        th, reads, evicts, faults, tampers, stats, removed,
                        altered, cache_lock, enabled, mr_sender, queue, api, calls, hist >>

\* read_chunks: the backend read fails
WorkerBatchFail(w) ==
    /\ wk[w].pc = "batch"
    /\ faults < MaxFaults
    /\ faults' = faults + 1
    /\ wk' = [wk EXCEPT ![w] = WBatchOver(w)]
    /\ UNCHANGED << config, tokens, image, chunk_map, file_map, files, entries, entry_lock,
                    th, reads, evicts, tampers, stats, removed, altered,
                    cache_lock, enabled, mr_sender, queue, api, calls, hist >>

\* persist loop, chunk i: the cache's write guard is taken and kept
WorkerGuard(w) ==
    /\ wk[w].pc = "persist"
    /\ cache_free
    /\ cache_lock' = w
    /\ wk' = [wk EXCEPT ![w].pc = "guarded"]
    /\ UNCHANGED << config, tokens, image, chunk_map, file_map, files, entries, entry_lock,
                    th, reads, evicts, faults, tampers, stats, removed,
                    altered, enabled, mr_sender, queue, api, calls, hist >>

\* persist loop, chunk i: under the cache's write guard set() and the entry
\* lock (waited for with the guard held); a NotReady entry gets chunks[i]
\* written at the entry's offset by entry.cache (pwrite wrote nr_write
\* bytes); a Ready one is left alone; both guards are dropped
WorkerPersist(w, nr_write) ==
    LET c == MR(wk[w].mr).chunks[wk[w].i]
        b == MR(wk[w].mr).blob_id
        buf == wk[w].chunks[wk[w].i]
        known == set_lookup(c) # 0
        e == IF known THEN set_lookup(c) ELSE Len(entries) + 1
        ec == IF known THEN entries[e].chunk ELSE c
        efd == IF known THEN entries[e].fd ELSE b
        skip == known /\ ~needs_cache(e)
    IN  /\ wk[w].pc = "guarded"
        /\ cache_lock = w
        /\ cache_lock' = 0
        /\ known => lock_free(e)
        /\ nr_write \in write_counts(buf)
        /\ skip => nr_write = Len(buf)
        /\ IF nr_write < Len(buf)
           THEN /\ faults < MaxFaults
                /\ faults' = faults + 1
           ELSE UNCHANGED faults
        /\ IF known
           THEN /\ UNCHANGED << chunk_map, file_map, entry_lock >>
                /\ entries' = IF skip THEN entries
                              ELSE [entries EXCEPT ![e].status = cache_status(e, TRUE)]
                /\ stats' = IF skip THEN stats
                            ELSE [stats EXCEPT ![e].ready = @ + 1,
                                               ![e].persist = @ + 1]
                /\ hist' = IF skip THEN hist
                           ELSE [hist EXCEPT !.persisted[efd][cache_offset(ec)] = buf]
           ELSE /\ file_map' = get_blob_fd(b)
                /\ entries' = Append(entries,
                                 [status |-> "Ready", chunk |-> c, fd |-> b])
                /\ entry_lock' = Append(entry_lock, 0)
                /\ stats' = Append(stats, [fetch |-> 0, excused |-> 0, ready |-> 1, persist |-> 1])
                /\ chunk_map' = [chunk_map EXCEPT ![ChunkInfo(c).block_id] = e]
                /\ hist' = [hist EXCEPT
                              !.size_queries[b] = @ + (IF asks_size(b) THEN 1 ELSE 0),
                              !.persisted[efd][cache_offset(ec)] = buf]
        /\ files' = IF skip THEN files
                    ELSE [files EXCEPT ![efd] =
                            Pwrite(@, buf, cache_offset(ec), nr_write)]
        /\ altered' = IF skip THEN altered ELSE altered \ {e}
        /\ wk' = [wk EXCEPT ![w] = WAdvance(w)]
        /\ UNCHANGED << config, tokens, image, th, reads, evicts, tampers, removed, enabled,
                        mr_sender, queue, api, calls >>

\* persist loop, chunk i: set() fails, or entry.cache returns an error;
\* the error is logged and the loop goes on
WorkerPersistFail(w) ==
    LET c == MR(wk[w].mr).chunks[wk[w].i]
        b == MR(wk[w].mr).blob_id
        known == set_lookup(c) # 0
    IN  /\ wk[w].pc = "guarded"
        /\ cache_lock = w
        /\ cache_lock' = 0
        /\ IF known
           THEN /\ lock_free(set_lookup(c))
                /\ ~is_ready(set_lookup(c))
                /\ UNCHANGED hist
           ELSE /\ ~file_map[b].open
                /\ \E queried \in {FALSE, backend_size_valid} :
                      hist' = [hist EXCEPT !.size_queries[b] =
                                 @ + (IF queried THEN 1 ELSE 0)]
        /\ faults < MaxFaults
        /\ faults' = faults + 1
        /\ wk' = [wk EXCEPT ![w] = [after_persist_error(w) EXCEPT !.errs = @ + 1]]
        /\ file_map' = IF known THEN file_map ELSE get_blob_fd_err(b)
        /\ UNCHANGED << config, tokens, image, chunk_map, files, entries, entry_lock,
                        th, reads, evicts, tampers, stats, removed, altered,
                        enabled, mr_sender, queue, api, calls >>

\* ---------------------------------------------------- the facade's calls
\* prefetch(bios): prefetch_seq is advanced, the sender cell is locked and,
\* if it holds a sender, generate_merged_requests sends the merged request;
\* Ok(0).  On a poisoned mutex lock().unwrap() panics.
Prefetch(m) ==
    /\ calls.prefetch_seq < MaxPrefetches
    /\ calls' = [calls EXCEPT !.prefetch_seq = @ + 1]
    /\ IF mr_sender.poisoned
       THEN /\ api' = [op |-> "prefetch", arg |-> m, ret |-> "panic", val |-> 0]
            /\ UNCHANGED queue
       ELSE /\ api' = [op |-> "prefetch", arg |-> m, ret |-> "Ok(0)", val |-> 0]
            /\ queue' = IF mr_sender.some THEN Append(queue, m) ELSE queue
    /\ UNCHANGED << config, tokens, image, chunk_map, file_map, files, entries, entry_lock, th,
                    reads, evicts, faults, tampers, stats, removed, altered,
                    cache_lock, enabled, mr_sender, wk, hist >>

\* stop_prefetch(): drop(mr_sender.lock().unwrap().take().unwrap()).  With
\* an empty cell the second unwrap panics while the guard is held, which
\* poisons the mutex; on a poisoned mutex the first unwrap panics.
StopPrefetch ==
    /\ calls.stop < MaxStops
    /\ calls' = [calls EXCEPT !.stop = @ + 1]
    /\ IF mr_sender.poisoned
       THEN /\ api' = [op |-> "stop_prefetch", arg |-> None, ret |-> "panic", val |-> 0]
            /\ UNCHANGED << mr_sender, hist >>
       ELSE IF ~mr_sender.some
       THEN /\ api' = [op |-> "stop_prefetch", arg |-> None, ret |-> "panic", val |-> 0]
            /\ mr_sender' = [mr_sender EXCEPT !.poisoned = TRUE]
            /\ UNCHANGED hist
       ELSE /\ api' = [op |-> "stop_prefetch", arg |-> None, ret |-> "Ok", val |-> 0]
            /\ mr_sender' = [mr_sender EXCEPT !.some = FALSE]
            /\ hist' = [hist EXCEPT !.stopped = TRUE]
    /\ UNCHANGED << config, tokens, image, chunk_map, file_map, files, entries, entry_lock, th,
                    reads, evicts, faults, tampers, stats, removed, altered,
                    cache_lock, enabled, queue, wk >>

\* has(blk)
Has(c) ==
    /\ calls.other < MaxCalls
    /\ cache_free
    /\ calls' = [calls EXCEPT !.other = @ + 1]
    /\ api' = [op |-> "has", arg |-> c,
             ret |-> IF has(c) THEN "true" ELSE "false", val |-> 0]
    /\ UNCHANGED << config, tokens, image, chunk_map, file_map, files, entries, entry_lock, th,
                    reads, evicts, faults, tampers, stats, removed, altered,
                    cache_lock, enabled, mr_sender, queue, wk, hist >>

\* blob_size(blob_id): get_blob_fd succeeds
BlobSize(b) ==
    /\ calls.other < MaxCalls
    /\ cache_free
    /\ calls' = [calls EXCEPT !.other = @ + 1]
    /\ file_map' = get_blob_fd(b)
    /\ hist' = [hist EXCEPT !.size_queries[b] = @ + (IF asks_size(b) THEN 1 ELSE 0)]
    /\ api' = [op |-> "blob_size", arg |-> b, ret |-> "Ok",
             val |-> get_blob_fd(b)[b].size]
    /\ UNCHANGED << config, tokens, image, chunk_map, files, entries, entry_lock, th,
                    reads, evicts, faults, tampers, stats, removed, altered,
                    cache_lock, enabled, mr_sender, queue, wk >>

\* blob_size(blob_id): get_blob_fd fails (the open, or backend.blob_size)
BlobSizeFail(b) ==
    /\ calls.other < MaxCalls
    /\ cache_free
    /\ calls' = [calls EXCEPT !.other = @ + 1]
    /\ ~file_map[b].open
    /\ faults < MaxFaults
    /\ faults' = faults + 1
    /\ \E queried \in {FALSE, backend_size_valid} :
          hist' = [hist EXCEPT !.size_queries[b] = @ + (IF queried THEN 1 ELSE 0)]
    /\ api' = [op |-> "blob_size", arg |-> b, ret |-> "Err", val |-> 0]
    /\ file_map' = get_blob_fd_err(b)
    /\ UNCHANGED << config, tokens, image, chunk_map, files, entries, entry_lock, th,
                    reads, evicts, tampers, stats, removed, altered,
                    cache_lock, enabled, mr_sender, queue, wk >>

\* The read calls made next to the prefetch workers: whole-chunk reads.
WholeReads == {a \in ReadArgs : a.offset = 0 /\ a.size = 2}

\* The steps of a prefetch worker on the merged requests it receives.
WorkerSteps ==
    \/ \E w \in Workers : WorkerRecv(w)
    \/ \E w \in Workers : WorkerProbe(w)
    \/ \E w \in Workers : WorkerProbeRead(w)
    \/ \E w \in Workers : WorkerBatch(w)
    \/ \E w \in Workers : WorkerBatchFail(w)
    \/ \E w \in Workers : WorkerGuard(w)
    \/ \E w \in Workers, n \in 0..3 : WorkerPersist(w, n)
    \/ \E w \in Workers : WorkerPersistFail(w)

\* The cache with its prefetch side: callers of prefetch and
\* stop_prefetch, the workers, and a reader.
NextPrefetch ==
    \/ /\ reads < MaxPrefetchReads
       /\ \E t \in Readers, c \in Chunks, a \in WholeReads : ReadStart(t, c, a)
    \/ ReaderSteps
    \/ \E m \in MergedReqs : Prefetch(m)
    \/ StopPrefetch
    \/ WorkerSteps
    \/ \E w \in Workers : WorkerExit(w)

SpecPrefetch == InitPrefetch /\ [][NextPrefetch]_vars

\* A reader and the workers racing for the chunks of a prefetch, with
\* someone altering the cached copies.
NextRace ==
    \/ /\ reads < MaxPrefetchReads
       /\ \E t \in Readers, c \in Chunks, a \in WholeReads : ReadStart(t, c, a)
    \/ ReaderSteps
    \/ \E m \in MergedReqs : Prefetch(m)
    \/ WorkerSteps
    \/ \E c \in Chunks, i \in 1..3 : Tamper(c, i)

SpecRace == InitPrefetch /\ [][NextRace]_vars

\* The workers behind the rate limiter, with a caller of prefetch.
NextLimiter ==
    \/ \E m \in MergedReqs \cup EmptyReqs : Prefetch(m)
    \/ WorkerSteps
    \/ \E w \in Workers : WorkerCheckN(w)
    \/ \E w \in Workers : WorkerUntilReady(w)
    \/ Replenish

SpecLimiter == InitLimiter /\ [][NextLimiter]_vars

\* The same with time passing and the parked worker woken: the bucket is
\* replenished as long as it is not full, and a worker in check_n or in
\* until_n_ready runs when it can.
SpecLimiterFair ==
    /\ SpecLimiter
    /\ WF_vars(Replenish)
    /\ \A w \in Workers : WF_vars(WorkerCheckN(w)) /\ SF_vars(WorkerUntilReady(w))

\* tree.apply(target) on the lower tree
Apply(target) ==
    LET r == apply(lower, RootPath, target)
    IN  /\ ~applied.done
        /\ lower' = r.tree
        /\ applied' = [done |-> TRUE, target |-> target, ret |-> r.ret,
                       before |-> lower]
        /\ UNCHANGED << config, tokens, pf, hist, chunk_map, file_map, files, entries,
                        entry_lock, th, reads, evicts, faults, tampers, stats,
                        removed, altered, upper_dir, loaded >>

NextApply == \E target \in Targets : Apply(target)

SpecApply == InitApply /\ [][NextApply]_vars

\* Tree::from_filesystem(root_path, overlay): the root node, then
\* load_children on it.
FromFilesystem ==
    LET r == load_children(Node_new(<< >>, "dir"), upper_dir.entries,
                           upper_dir.overlay)
    IN  /\ ~loaded.done
        /\ loaded' = [done |-> TRUE,
                      tree |-> [node |-> r.parent, children |-> r.result]]
        /\ UNCHANGED << config, tokens, pf, hist, chunk_map, file_map, files, entries,
                        entry_lock, th, reads, evicts, faults, tampers, stats,
                        removed, altered, lower, applied, upper_dir >>

NextLoad == FromFilesystem

SpecLoad == InitLoad /\ [][NextLoad]_vars

\* The cache with callers of has and blob_size next to a reader, a
\* prefetch and the workers (nobody calls stop_prefetch).
NextFacade ==
    \/ /\ reads < MaxPrefetchReads
       /\ \E t \in Readers, c \in Chunks, a \in WholeReads : ReadStart(t, c, a)
    \/ ReaderSteps
    \/ \E m \in MergedReqs : Prefetch(m)
    \/ \E c \in Chunks : Has(c)
    \/ \E b \in Blobs : BlobSize(b)
    \/ \E b \in Blobs : BlobSizeFail(b)
    \/ WorkerSteps

SpecFacade == InitPrefetch /\ [][NextFacade]_vars

\* The same with callers of evict: every operation that takes the
\* cache-state lock or an entry lock.
NextLocks ==
    \/ /\ reads < MaxPrefetchReads
       /\ \E t \in Readers, c \in Chunks, a \in WholeReads : ReadStart(t, c, a)
    \/ ReaderSteps
    \/ Prefetch("m12")
    \/ \E c \in {"c1", "c2"} : Has(c)
    \/ \E c \in {"c1", "c2"} : Evict(c)
    \/ BlobSize("b1")
    \/ WorkerSteps

SpecLocks == InitPrefetch /\ [][NextLocks]_vars

\* ================================================================ claims
\* The decoded bytes the backend serves for a chunk, and the form of the
\* chunk that a persist hands to the cache file.
Served(c) ==
    Decompress(Pread(blob_data[ChunkInfo(c).blob_id], ChunkInfo(c).compress_size,
                     ChunkInfo(c).compress_offset)).out

StoredForm(c) ==
    IF is_compressed
    THEN Pread(blob_data[ChunkInfo(c).blob_id], ChunkInfo(c).compress_size,
               ChunkInfo(c).compress_offset)
    ELSE Served(c)

BackendValid(c) == read_backend_chunk(ChunkInfo(c).blob_id, c).ok

Done(t) == th[t].pc = "done"

InEntryRead(t) == th[t].pc \in {"locked", "backend", "persist", "copyout"}

InFlight(e) == \E t \in Readers : th[t].pc \notin {"idle", "done"} /\ th[t].entry = e

EntryDigest(e) == ChunkInfo(entries[e].chunk).block_id

\* C1 (as stated): under concurrent reads of the same NotReady chunk the
\* backend receives at most one fetch call for that chunk.
C1_AtMostOneFetch == \A e \in DOMAIN stats : stats[e].fetch <= 1

\* C1 (amended): the readers of an entry serialize on its lock (at most one
\* of them is inside entry_read), and every backend fetch for the entry
\* beyond the first is accounted for by a failure: a fetch that failed, a
\* persist that failed or was short, or a cache read-back of the Ready
\* entry that failed.
C1_OneFetchUnlessFailure ==
    /\ \A e \in DOMAIN stats : stats[e].fetch <= 1 + stats[e].excused
    /\ \A t1, t2 \in Readers :
          InEntryRead(t1) /\ InEntryRead(t2) /\ th[t1].entry = th[t2].entry
            => t1 = t2

\* Two readers got the same NotReady entry; one fetched and persisted, the
\* other was served from the cache; the backend was called once.
C1_Witness ==
    \E t1, t2 \in Readers :
        /\ t1 # t2 /\ Done(t1) /\ Done(t2)
        /\ th[t1].entry = th[t2].entry
        /\ th[t1].cold /\ th[t2].cold
        /\ th[t1].ret.ok /\ th[t2].ret.ok
        /\ th[t1].ret.path = "backend"
        /\ th[t2].ret.path \in {"fast", "recover"}
        /\ stats[th[t1].entry].fetch = 1

\* C2 (as stated): a successful read delivers exactly the bytes
\* [offset, offset+size) of the chunk as the backend serves it (so that two
\* reads with the same arguments deliver the same bytes), here for runs in
\* which nothing failed.
C2_ReadDeliversRange ==
    \A t \in Readers :
        Done(t) /\ th[t].ret.ok /\ faults = 0
          => /\ th[t].ret.n = th[t].size
             /\ th[t].ret.data = SubSeq(Served(th[t].chunk), th[t].offset + 1,
                                        th[t].offset + th[t].size)

\* C3: with cache_validate and a non-streaming compressor, the decoded
\* chunk behind a successful read has the chunk's declared digest, and the
\* bytes handed to the caller are taken from it.
C3_ValidatedDigest ==
    \A t \in Readers :
        Done(t) /\ th[t].ret.ok /\ validate /\ compressor # "GZip"
          => /\ digest_check(th[t].buf, ChunkInfo(th[t].chunk).block_id)
             /\ th[t].ret.data = SubSeq(th[t].buf, th[t].offset + 1,
                                        th[t].offset + th[t].ret.n)

\* A validated read that was served from the cache file, and one whose
\* cached bytes had been altered.
C3_Witness ==
    \E t \in Readers :
        /\ Done(t) /\ th[t].ret.ok /\ validate /\ compressor # "GZip"
        /\ th[t].ret.path = "recover"
        /\ tampers > 0

\* C4 (as stated): a Ready entry has a complete persisted copy of the chunk
\* at its offset in the blob cache file.
C4_ReadyHasCompleteCopy ==
    \A e \in DOMAIN entries :
        is_ready(e)
          => Pread(files[entries[e].fd], Len(StoredForm(entries[e].chunk)),
                   cache_offset(entries[e].chunk)) = StoredForm(entries[e].chunk)

C7_EvictThenRead ==
    /\ \A d \in Digests : chunk_map[d] \notin removed
    /\ \A e \in removed :
          (\A e2 \in DOMAIN entries : e2 > e => EntryDigest(e2) # EntryDigest(e))
            => ~has(entries[e].chunk)
    /\ \A t \in Readers :
          Done(t) /\ th[t].after_evict /\ faults = 0 /\ BackendValid(th[t].chunk)
            => /\ th[t].ret.ok
               /\ th[t].ret.n >= th[t].size
               /\ th[t].ret.data = SubSeq(Served(th[t].chunk), th[t].offset + 1,
                                          th[t].offset + th[t].ret.n)

\* A read after evict that was served by recovery from the file.
C7_Witness ==
    \E t \in Readers :
        /\ Done(t) /\ th[t].after_evict /\ faults = 0
        /\ th[t].ret.ok /\ th[t].ret.path = "recover"

\* C8 (as stated): a successful read returns n with 0 <= n <= bio.size.
C8_ReturnWithinSize ==
    \A t \in Readers :
        Done(t) /\ th[t].ret.ok => 0 <= th[t].ret.n /\ th[t].ret.n <= th[t].size

\* C9 (as stated): with cache_validate, a read of a chunk whose cached
\* bytes were altered after the entry became Ready returns an error.
C9_TamperIsError ==
    \A t \in Readers :
        Done(t) /\ th[t].tampered /\ validate => ~th[t].ret.ok

\* C9 (amended): such a read never hands out the altered bytes: it succeeds
\* with bytes of the declared digest (refetched from the backend, or read
\* back after a repair), and fails only if the backend fetch fails.
C9_TamperIsRepaired ==
    \A t \in Readers :
        Done(t) /\ th[t].tampered /\ validate
          => IF th[t].ret.ok
             THEN /\ th[t].ret.path \in {"backend", "recover"}
                  /\ digest_check(th[t].buf, ChunkInfo(th[t].chunk).block_id)
                  /\ th[t].ret.data = SubSeq(th[t].buf, th[t].offset + 1,
                                             th[t].offset + th[t].ret.n)
             ELSE th[t].fault

\* A read of an altered chunk that succeeded by refetching from the backend.
C9_Witness ==
    \E t \in Readers :
        /\ Done(t) /\ th[t].tampered /\ validate
        /\ th[t].ret.ok /\ th[t].ret.path = "backend"

\* C10: a reader that holds the lock of a Ready entry, with an uncompressed
\* cache and validation off, returns in its next step what pread gives at
\* decompress_offset + offset for up to size bytes; no backend call is
\* made and the entries, the maps and the file are unchanged.
C10_FastPath ==
    [][\A t \in Readers :
         /\ th[t].pc = "locked"
         /\ ~is_compressed /\ ~validate /\ entries[th[t].entry].status = "Ready"
         /\ th'[t].pc # "locked"
         => /\ th'[t].pc = "done"
            /\ th'[t].ret.ok
            /\ th'[t].ret.path = "fast"
            /\ th'[t].ret.data =
                 Pread(files[entries[th[t].entry].fd],
                       Min(th[t].size, SumSeq(th[t].bufs)),
                       ChunkInfo(entries[th[t].entry].chunk).decompress_offset
                         + th[t].offset)
            /\ th'[t].ret.n = Len(th'[t].ret.data)
            /\ stats' = stats /\ entries' = entries /\ chunk_map' = chunk_map
            /\ file_map' = file_map /\ files' = files]_vars

\* A read served by the fast path.
C10_Witness ==
    \E t \in Readers :
        /\ Done(t) /\ th[t].ret.ok /\ th[t].ret.path = "fast"
        /\ th[t].ret.n = th[t].size
        /\ th[t].chunk = "c2"

\* C11 (as stated): after stop_prefetch has returned no worker issues a new
\* backend call: a merged request that a worker receives after that moment
\* is never fetched with read_chunks.
C11_NoFetchAfterStop ==
    \A w \in Workers : wk[w].late => wk[w].batches = 0

\* C12 (as stated): a worker that has finished a merged request of several
\* chunks none of which had an entry, with nothing failing and a backend
\* whose bytes decode, made exactly one read_chunks call and every chunk
\* of the request has a Ready entry.
C12_OneBatchAllReady ==
    \A w \in Workers :
        LET l == wk[w].last
        IN  /\ l.mr # None
            /\ Len(MR(l.mr).chunks) > 1
            /\ l.cold
            /\ faults = 0
            /\ \A i \in 1..Len(MR(l.mr).chunks) : BackendValid(MR(l.mr).chunks[i])
            => /\ l.batches = 1
               /\ \A i \in 1..Len(MR(l.mr).chunks) :
                     /\ get(MR(l.mr).chunks[i]) # 0
                     /\ entries[get(MR(l.mr).chunks[i])].status = "Ready"

\* C13 (as stated): every prefetch call returns Ok(0).
C13_PrefetchReturnsZero ==
    api.op = "prefetch" => api.ret = "Ok(0)"

\* C14 (as stated): every stop_prefetch call returns success and leaves the
\* sender cell empty.
C14_StopAlwaysSucceeds ==
    api.op = "stop_prefetch" => api.ret = "Ok" /\ ~mr_sender.some

\* C15: a step of evict changes at most one row of chunk_map, the row of
\* the evicted digest, which becomes absent; the cache files, file_map and
\* the entries with their status are unchanged; an evict of a digest that
\* has no entry changes no row at all.
C15_EvictFrame ==
    [][evicts' # evicts
         => /\ files' = files
            /\ file_map' = file_map
            /\ entries' = entries
            /\ entry_lock' = entry_lock
            /\ removed' = removed => chunk_map' = chunk_map
            /\ removed' # removed
                 => \E e \in removed' \ removed :
                       /\ chunk_map[EntryDigest(e)] = e
                       /\ chunk_map' = [chunk_map EXCEPT ![EntryDigest(e)] = 0]]_vars

\* A Ready entry was evicted while another digest has an entry, and the
\* evicted chunk's bytes are still in the cache file.
C15_Witness ==
    \E e \in removed :
        /\ entries[e].status = "Ready"
        /\ chunk_map[EntryDigest(e)] = 0
        /\ \E d \in Digests : chunk_map[d] # 0
        /\ Pread(files[entries[e].fd], Len(StoredForm(entries[e].chunk)),
                 cache_offset(entries[e].chunk)) = StoredForm(entries[e].chunk)

\* C16 (as stated): the bytes that the last successful entry.cache call
\* wrote at an offset of a cache file are what the file holds there.
C16_RoundTrip ==
    \A b \in Blobs : \A o \in Offsets :
        hist.persisted[b][o] # <<>>
          => Pread(files[b], Len(hist.persisted[b][o]), o) = hist.persisted[b][o]

\* C17: a step of has returns whether chunk_map has a row for the
\* descriptor's digest, whatever the entry's status, and changes nothing
\* of the cache.
C17_HasIsLookup ==
    [][api'.op = "has" /\ calls'.other # calls.other
         => /\ (api'.ret = "true")
                 <=> (chunk_map[ChunkInfo(api'.arg).block_id] # 0)
            /\ chunk_map' = chunk_map /\ file_map' = file_map
            /\ files' = files /\ entries' = entries
            /\ entry_lock' = entry_lock]_vars

\* has returned true for a descriptor whose entry is NotReady.
C17_Witness ==
    /\ api.op = "has" /\ api.ret = "true"
    /\ get(api.arg) # 0
    /\ entries[get(api.arg)].status = "NotReady"

\* C18: once file_map has the row of a blob, no step asks the backend for
\* its size again or changes the row; the memoized size is the backend's
\* size when backend_size_valid and 0 otherwise (then the backend is never
\* asked); a blob_size call that succeeds returns the memoized size.
C18_BlobSizeMemoized ==
    [][\A b \in Blobs :
         /\ file_map[b].open
              => /\ file_map'[b] = file_map[b]
                 /\ hist'.size_queries[b] = hist.size_queries[b]
         /\ file_map'[b].open
              => file_map'[b].size =
                   (IF backend_size_valid THEN Len(blob_data[b]) ELSE 0)
         /\ ~backend_size_valid => hist'.size_queries[b] = 0
         /\ hist'.size_queries[b] <= hist.size_queries[b] + 1
         /\ api'.op = "blob_size" /\ api'.arg = b /\ api'.ret = "Ok"
              => file_map'[b].open /\ api'.val = file_map'[b].size]_vars

\* blob_size returned the backend's size of a blob that a read or a
\* worker had opened; the backend was asked once.
C18_Witness ==
    /\ api.op = "blob_size" /\ api.ret = "Ok"
    /\ api.val = Len(blob_data["b1"])
    /\ api.arg = "b1"
    /\ hist.size_queries["b1"] = 1
    /\ \E e \in DOMAIN entries : entries[e].fd = "b1"

\* C19 (as stated): a read that persists a chunk fetched the bytes from
\* its own blob at its own descriptor's offset and writes them into its
\* own blob's cache file at its own descriptor's offset.
C19_OwnBlobOwnOffset ==
    \A t \in Readers :
        th[t].pc = "persist"
          => /\ entries[th[t].entry].fd = ChunkInfo(th[t].chunk).blob_id
             /\ cache_offset(entries[th[t].entry].chunk) = cache_offset(th[t].chunk)
             /\ th[t].raw = Pread(blob_data[ChunkInfo(th[t].chunk).blob_id],
                                  ChunkInfo(th[t].chunk).compress_size,
                                  ChunkInfo(th[t].chunk).compress_offset)

\* C20 (as stated): what a persist hands to entry.cache for an offset of a
\* cache file is the chunk at that offset in the form cache_compressed
\* selects, here for runs in which nothing failed.
C20_PersistedForm ==
    \A b \in Blobs : \A o \in Offsets :
        hist.persisted[b][o] # <<>> /\ faults = 0
          => \E c \in Chunks \cup OtherChunks :
                /\ ChunkInfo(c).blob_id = b
                /\ cache_offset(c) = o
                /\ hist.persisted[b][o] = StoredForm(c)

\* A thread holds an entry lock; a reader's next step takes the cache-state
\* lock; the chunk a worker is at in its probe or persist loop; some
\* thread waits for a lock that is held.
HoldsEntry(t) == \E e \in DOMAIN entry_lock : entry_lock[e] = t

WantsCache(t) == th[t].pc \in {"idle", "done", "set"}

WorkerChunk(w) == MR(wk[w].mr).chunks[wk[w].i]

Waiting ==
    \/ \E t \in Readers :
          \/ th[t].pc = "set" /\ ~cache_free
          \/ th[t].pc = "lock" /\ ~lock_free(th[t].entry)
    \/ \E w \in Workers :
          \/ wk[w].pc \in {"probe", "persist"} /\ ~cache_free
          \/ /\ wk[w].pc \in {"probe", "guarded"}
             /\ get(WorkerChunk(w)) # 0
             /\ ~lock_free(get(WorkerChunk(w)))

\* C21: no thread that holds an entry lock is at a point where it takes
\* the cache-state lock; the only thread that keeps the cache-state lock
\* while it takes an entry lock is a worker in its persist loop; and
\* whenever some thread waits for a lock, some thread can take a step (no
\* deadlock).
C21_LockOrder ==
    /\ \A t \in Readers : HoldsEntry(t) => ~WantsCache(t)
    /\ cache_lock # 0 => wk[cache_lock].pc = "guarded"
    /\ Waiting => ENABLED (ReaderSteps \/ WorkerSteps)

\* A worker holds the cache-state write guard and waits for an entry lock
\* that a reader holds, while another reader waits for the cache-state
\* lock.
C21_Witness ==
    \E w \in Workers : \E t \in Readers :
        /\ cache_lock = w
        /\ get(WorkerChunk(w)) # 0
        /\ entry_lock[get(WorkerChunk(w))] = t
        /\ th[t].pc = "backend"

\* C22 (as stated): whoever holds the cache-state exclusive lock is not
\* waiting for an entry lock, so no reader that holds an entry lock during
\* its backend fetch keeps the cache-state lock from the other threads.
C22_ShortExclusiveSection ==
    \A w \in Workers :
        cache_lock = w /\ get(WorkerChunk(w)) # 0
          => lock_free(get(WorkerChunk(w)))

\* C30 (as stated): two readers are never both between their backend fetch
\* and the end of their persist for the same digest and the same range of
\* the same cache file.
C30_ExclusivePerDigest ==
    \A t1, t2 \in Readers :
        /\ th[t1].pc \in {"backend", "persist"}
        /\ th[t2].pc \in {"backend", "persist"}
        /\ EntryDigest(th[t1].entry) = EntryDigest(th[t2].entry)
        /\ entries[th[t1].entry].fd = entries[th[t2].entry].fd
        => t1 = t2

\* The cache file of a chunk's blob holds, at the chunk's offset, bytes
\* that decode to bytes of the chunk's declared digest.
FileHolds(c) ==
    LET raw == Pread(files[ChunkInfo(c).blob_id],
                     IF is_compressed THEN ChunkInfo(c).compress_size
                     ELSE ChunkInfo(c).decompress_size,
                     cache_offset(c))
        dec == IF is_compressed THEN Decompress(raw)
               ELSE [ok |-> TRUE, out |-> raw]
    IN  dec.ok /\ digest_check(dec.out, ChunkInfo(c).block_id)

\* C24 (as stated): after a worker has skipped the batched fetch of a
\* merged request (with nothing failing), the cache file holds
\* digest-matching bytes for every chunk of the request.
C24_SkipOnlyIfCached ==
    \A w \in Workers :
        LET l == wk[w].last
        IN  l.mr # None /\ l.batches = 0 /\ faults = 0
              => \A i \in 1..Len(MR(l.mr).chunks) : FileHolds(MR(l.mr).chunks[i])

\* C27 (as stated): with the GZip compressor, a reader that holds the
\* lock of a NotReady entry goes to the backend, and a worker whose probe
\* reads the cache file for a NotReady entry issues the batched fetch.
C27_GzipNeverTrustsDisk ==
    [][compressor = "GZip"
         => /\ \A t \in Readers :
                  /\ th[t].pc = "locked" /\ th'[t].pc # "locked"
                  /\ ~is_ready(th[t].entry)
                  => th'[t].pc = "backend"
            /\ \A w \in Workers :
                  /\ wk[w].pc = "proberead" /\ wk'[w].pc # "proberead"
                  /\ ~is_ready(wk[w].e)
                  => wk'[w].pc = "batch"]_vars

\* C25: a reader whose cache recovery attempt fails (it is not made, the
\* read is short or empty, the bytes do not decode or do not validate)
\* goes on to the backend fetch in the same read, and is served from the
\* cache only with bytes the recovery returned; a backend fetch that fails
\* ends the read with an error, the entry lock released, and the entries
\* and the cache files unchanged; one that succeeds goes on to the persist.
C25_FallbackToBackend ==
    [][\A t \in Readers :
         LET e == th[t].entry
             r(b0) == read_blobcache_chunk(files[entries[e].fd], entries[e].chunk,
                                           b0, recover_validate(e))
             bufs0 == UninitBufs(entries[e].chunk)
         IN  /\ th[t].pc = "locked" /\ th'[t].pc \notin {"locked", "done"}
                => /\ (~try_recover(e) \/ \A b0 \in bufs0 : ~r(b0).ok)
                        => th'[t].pc = "backend"
                   /\ th'[t].pc = "copyout"
                        => /\ try_recover(e)
                           /\ \E b0 \in bufs0 : r(b0).ok /\ th'[t].buf = r(b0).out
                   /\ th'[t].pc \in {"copyout", "backend"}
             /\ th[t].pc = "backend" /\ th'[t].pc # "backend"
                => /\ entries' = entries /\ files' = files
                   /\ IF th'[t].pc = "done"
                      THEN ~th'[t].ret.ok /\ entry_lock'[e] = 0
                      ELSE /\ th'[t].pc = "persist"
                           /\ entry_lock'[e] = t]_vars

\* A read whose recovery attempt on a NotReady entry failed and whose
\* backend fetch failed too: it returned the error and the entry is
\* NotReady as before.
C25_Witness ==
    \E t \in Readers :
        /\ Done(t) /\ ~th[t].ret.ok /\ th[t].ret.path = "backend"
        /\ compressor # "GZip"
        /\ th[t].cold
        /\ entries[th[t].entry].status = "NotReady"

\* C26 (as stated): after a persist that failed with an error other than
\* EINTR the entry is NotReady.
C26_StaysNotReady ==
    \A t \in Readers :
        th[t].pc = "copyout" /\ th[t].cache_err
          => entries[th[t].entry].status = "NotReady"

\* C26 (amended): a persist that fails with an error other than EINTR
\* leaves the entry's status as it was (NotReady stays NotReady; an entry
\* that was Ready and is being rewritten after a failed read-back stays
\* Ready) and the cache file untouched, and the read then succeeds with the
\* bytes fetched from the backend; an EINTR changes nothing and leaves the
\* reader in the persist.
C26_PersistFailure ==
    [][\A t \in Readers :
         LET e == th[t].entry
             fetched == read_backend_chunk(ChunkInfo(th[t].chunk).blob_id,
                                           entries[e].chunk).out
         IN  /\ th[t].pc = "persist" /\ th'[t].eintr # th[t].eintr
                => /\ th'[t] = [th[t] EXCEPT !.eintr = @ + 1]
                   /\ entries' = entries /\ files' = files
                   /\ entry_lock' = entry_lock
             /\ th[t].pc = "persist" /\ th'[t].pc # "persist" /\ th'[t].cache_err
                => /\ th'[t].pc = "copyout"
                   /\ th'[t].buf = th[t].buf /\ th[t].buf = fetched
                   /\ entries' = entries /\ files' = files
                   /\ entry_lock' = entry_lock
             /\ th[t].pc = "copyout" /\ th'[t].pc # "copyout" /\ th[t].cache_err
                => /\ th'[t].pc = "done"
                   /\ th'[t].ret = [copy_out(th[t].reuse, fetched, th[t].bufs,
                                              th[t].offset, th[t].size)
                                       EXCEPT !.path = "backend"]
                   /\ th'[t].ret.ok
                   /\ entries' = entries /\ files' = files]_vars

\* A read whose persist was interrupted once and then failed: it returned
\* the fetched bytes and the entry is still NotReady.
C26_Witness ==
    \E t \in Readers :
        /\ Done(t) /\ th[t].cache_err /\ th[t].eintr > 0
        /\ th[t].ret.ok /\ th[t].ret.n > 0
        /\ entries[th[t].entry].status = "NotReady"

\* C23 (as stated): at most one persist happens per entry, here in runs in
\* which no call failed, with an uncompressed cache and a compressor whose
\* cached chunks are read back with pread.
C23_AtMostOnePersist ==
    faults = 0 /\ compressor # "GZip" /\ ~is_compressed
      => \A e \in DOMAIN stats : stats[e].persist <= 1

\* C23 (amended): a Ready entry stays Ready, and every persist leaves its
\* entry Ready, so that an entry is persisted at most once while NotReady,
\* whoever fetched the chunk; a worker persists only to an entry that is
\* NotReady when it holds the entry lock; a persist to an entry that is
\* already Ready is made only by a reader whose read-back of the cached
\* copy failed in the same read.
C23_OnePersistUnlessReadBackFails ==
    [][\A e \in DOMAIN entries :
         /\ is_ready(e) => entries'[e].status = "Ready"
         /\ stats'[e].persist # stats[e].persist
              => /\ stats'[e].persist = stats[e].persist + 1
                 /\ entries'[e].status = "Ready"
                 /\ wk' # wk => ~is_ready(e)
                 /\ is_ready(e)
                      => \E t \in Readers :
                            /\ th[t].pc = "persist" /\ th[t].entry = e
                            /\ th'[t].pc = "copyout"
                            /\ th[t].ret.path = "backend"
                            /\ \/ ~try_recover(e)
                               \/ \E b0 \in UninitBufs(entries[e].chunk) :
                                     ~read_blobcache_chunk(files[entries[e].fd],
                                          entries[e].chunk, b0,
                                          recover_validate(e)).ok]_vars

\* A worker and a reader both fetched the chunk; the reader persisted it and
\* the worker, finding the entry Ready under its lock, wrote nothing.
C23_Witness ==
    \E w \in Workers, t \in Readers :
        /\ wk[w].last.mr # None /\ wk[w].last.batches = 1
        /\ Done(t) /\ th[t].ret.ok /\ th[t].ret.path = "backend"
        /\ \E i \in 1..Len(MR(wk[w].last.mr).chunks) :
              get(MR(wk[w].last.mr).chunks[i]) = th[t].entry
        /\ stats[th[t].entry].fetch = 1
        /\ stats[th[t].entry].persist = 1
        /\ \A e \in DOMAIN stats : stats[e].persist = 1
        /\ faults = 0

C29_LimiterNeverBlocksForever ==
    /\ [][/\ tokens' \in 0..tweaked_bw_limit
          /\ queue # <<>> /\ queue' = Tail(queue) /\ MR(Head(queue)).blob_size = 0
               => wk' = wk /\ tokens' = tokens
          /\ \A w \in Workers :
               /\ bandwidth_rate = 0 => wk'[w].pc \notin {"throttle", "until_ready"}
               /\ wk[w].pc = "recv" /\ wk'[w].pc \notin {"recv", "exited"}
                    => /\ MR(wk'[w].mr).blob_size > 0
                       /\ tokens' = tokens
                       /\ wk'[w].pc = IF bandwidth_rate = 0 THEN "probe" ELSE "throttle"
               /\ wk[w].pc \in {"throttle", "until_ready"} /\ wk'[w].pc = "probe"
                    => LET n == MR(wk[w].mr).blob_size
                       IN  IF n > tweaked_bw_limit
                           THEN tokens' = tokens
                           ELSE tokens >= n /\ tokens' = tokens - n]_vars
    /\ \A w \in Workers :
          wk[w].pc \in {"throttle", "until_ready"}
            ~> wk[w].pc \notin {"throttle", "until_ready"}

\* A request within the burst found too few cells in the bucket, waited
\* for them and is in its probe loop.
C29_Witness ==
    \E w \in Workers :
        /\ wk[w].limited = "waited" /\ wk[w].pc = "probe"
        /\ MR(wk[w].mr).blob_size <= tweaked_bw_limit

\* C31: a read whose set() fails, and a blob_size whose get_blob_fd fails,
\* return the error and leave chunk_map, file_map, the entries and the
\* cache files as they were: the chunk has no entry and the blob no handle
\* afterwards; and whenever a blob gets its handle, by a later call, the
\* whole of get_blob_fd runs (the backend is asked for the size when its
\* size is authoritative).
C31_FailedSetLeavesState ==
    [][/\ \A t \in Readers :
            th[t].pc = "set" /\ th'[t].pc = "done"
              => /\ ~th'[t].ret.ok /\ th'[t].ret.path = "set"
                 /\ chunk_map' = chunk_map /\ file_map' = file_map
                 /\ entries' = entries /\ files' = files
                 /\ entry_lock' = entry_lock
                 /\ chunk_map'[ChunkInfo(th[t].chunk).block_id] = 0
                 /\ ~file_map'[ChunkInfo(th[t].chunk).blob_id].open
       /\ calls'.other # calls.other /\ api'.op = "blob_size" /\ api'.ret = "Err"
            => /\ chunk_map' = chunk_map /\ file_map' = file_map
               /\ entries' = entries /\ files' = files
               /\ ~file_map'[api'.arg].open
       /\ \A b \in Blobs :
            ~file_map[b].open /\ file_map'[b].open
              => /\ hist'.size_queries[b] = hist.size_queries[b]
                        + (IF backend_size_valid THEN 1 ELSE 0)
                 /\ file_map'[b].size = IF backend_size_valid
                                        THEN Len(blob_data[b]) ELSE 0]_vars

\* blob_size failed for a blob; a later read of a chunk of that blob opened
\* the file, inserted the entry and succeeded.
C31_Witness ==
    \E t \in Readers :
        /\ api.op = "blob_size" /\ api.ret = "Err" /\ api.arg = "b1"
        /\ Done(t) /\ th[t].ret.ok /\ ~th[t].cold
        /\ ChunkInfo(th[t].chunk).blob_id = "b1"
        /\ file_map["b1"].open
        /\ get(th[t].chunk) = th[t].entry

\* C32: after Tree::apply of a node marked UpperRemoval whose path is the
\* path of a node of the tree, that node and all below it are gone, every
\* other node is as before and UpperRemoval was returned; when no node has
\* that path the tree is as before and Lower was returned; after the apply
\* of a node marked UpperOpaque whose path is that of a directory of the
\* tree, all nodes below the directory are gone, the directory is there
\* and every other node is as before.
C32_ApplyWhiteouts ==
    applied.done =>
        LET t == applied.target
            p == t.path
            before == applied.before
        IN  /\ t.overlay = "UpperRemoval" /\ p \in DOMAIN before
               => /\ applied.ret = "UpperRemoval"
                  /\ DOMAIN lower = {q \in DOMAIN before : ~is_prefix(p, q)}
                  /\ \A q \in DOMAIN lower : lower[q] = before[q]
            /\ t.overlay = "UpperRemoval" /\ p \notin DOMAIN before
               => lower = before /\ applied.ret = Lower
            /\ t.overlay = "UpperOpaque" /\ p \in DOMAIN before /\ before[p].is_dir
               => /\ DOMAIN lower =
                        {q \in DOMAIN before : q = p \/ ~is_prefix(p, q)}
                  /\ lower[p].is_dir
                  /\ \A q \in DOMAIN lower \ {p} : lower[q] = before[q]

\* A whiteout removed a directory of the lower tree that had children,
\* next to another directory with children.
C32_Witness ==
    /\ applied.done /\ applied.target.overlay = "UpperRemoval"
    /\ applied.ret = "UpperRemoval"
    /\ Len(applied.target.path) = 2
    /\ \E q \in DOMAIN applied.before :
          Len(q) = 3 /\ is_prefix(applied.target.path, q)
    /\ \E q \in DOMAIN lower : Len(q) = 3

\* C33: in the tree load_children built with overlay enabled, in every
\* child list each child marked UpperRemoval or UpperOpaque comes before
\* every child that is not, and so in the order Tree::iterate visits the
\* nodes no whiteout or opaque child of a directory comes after another
\* child of that directory; no node is named as the opaque marker, the
\* nodes of a directory are exactly those of its entries that are neither
\* special files nor the marker, and the node of a whiteout entry has the
\* path of the directory joined with the entry's name less the prefix.
C33_WhiteoutsFirst ==
    loaded.done /\ upper_dir.overlay =>
        LET marked(node) == node.overlay \in {"UpperRemoval", "UpperOpaque"}
            first(list) ==
                \A i \in 1..Len(list) : \A j \in 1..Len(list) :
                    i < j /\ marked(list[j].node) => marked(list[i].node)
            up(path) == SubSeq(path, 1, Len(path) - 1)
            order == iterate(loaded.tree)
            kept(dir_entries) ==
                {i \in 1..Len(dir_entries) :
                    /\ dir_entries[i].file_type # ""
                    /\ dir_entries[i].name # OCISPEC_WHITEOUT_OPAQUE}
            whiteout(e) == e.name[1] = OCISPEC_WHITEOUT_PREFIX
            expected(path, dir_entries) ==
                {[path |-> IF whiteout(dir_entries[i])
                           THEN path \o << Tail(dir_entries[i].name) >>
                           ELSE path \o << dir_entries[i].name >>,
                  removal |-> whiteout(dir_entries[i])] : i \in kept(dir_entries)}
            nodes(list) ==
                {[path |-> list[i].node.path,
                  removal |-> list[i].node.overlay = "UpperRemoval"] :
                    i \in 1..Len(list)}
            built(path, dir_entries, list) ==
                /\ nodes(list) = expected(path, dir_entries)
                /\ Len(list) = Cardinality(kept(dir_entries))
        IN  /\ first(loaded.tree.children)
            /\ \A c \in 1..Len(loaded.tree.children) :
                  first(loaded.tree.children[c].children)
            /\ \A i \in 1..Len(order) : \A j \in 1..Len(order) :
                  /\ i < j /\ Len(order[i].path) > 0
                  /\ Len(order[i].path) = Len(order[j].path)
                  /\ up(order[i].path) = up(order[j].path)
                  /\ marked(order[j])
                  => marked(order[i])
            /\ \A i \in 1..Len(order) :
                  Len(order[i].path) > 0
                  => name(order[i].path) # OCISPEC_WHITEOUT_OPAQUE
            /\ built(<< >>, upper_dir.entries, loaded.tree.children)
            /\ \A c \in 1..Len(upper_dir.entries) :
                  LET e == upper_dir.entries[c]
                  IN  c \in kept(upper_dir.entries) /\ ~whiteout(e)
                      => \E k \in 1..Len(loaded.tree.children) :
                            /\ loaded.tree.children[k].node.path = << e.name >>
                            /\ loaded.tree.children[k].node.overlay # "UpperRemoval"
                            /\ built(<< e.name >>, e.entries,
                                     loaded.tree.children[k].children)

\* A directory was loaded with overlay enabled in which read_dir gave a
\* plain file first, then a whiteout, then a directory that holds the
\* opaque marker next to a file.
C33_Witness ==
    /\ loaded.done /\ upper_dir.overlay
    /\ Len(upper_dir.entries) = 3
    /\ upper_dir.entries[1].file_type = "file"
    /\ upper_dir.entries[1].name = << "a" >>
    /\ upper_dir.entries[2].file_type = "file"
    /\ upper_dir.entries[2].name = << OCISPEC_WHITEOUT_PREFIX, "a" >>
    /\ upper_dir.entries[3].file_type = "dir"
    /\ upper_dir.entries[3].name = << "d" >>
    /\ Len(upper_dir.entries[3].entries) = 2
    /\ exists(upper_dir.entries[3].entries, OCISPEC_WHITEOUT_OPAQUE)
    /\ Len(loaded.tree.children) = 3
    /\ loaded.tree.children[1].node.overlay = "UpperOpaque"
    /\ loaded.tree.children[2].node.overlay = "UpperRemoval"
    /\ loaded.tree.children[3].node.overlay = "UpperAddition"
====
